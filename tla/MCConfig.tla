------------------------------ MODULE MCConfig ------------------------------
(*****************************************************************************)
(*  Instances of the components that keep the configuration and the logs,    *)
(* for safety: transactions of Core, the store of profiles, the order of     *)
(* rules, settings pages, choices of a proxy, recorded logs. The scenario,   *)
(* chosen in the initial state, is the instance that a behaviour is of; the  *)
(* variables of the other components are Unused, so that the state spaces    *)
(* add up and do not multiply.                                               *)
(*****************************************************************************)
EXTENDS Naturals, Sequences

CONSTANTS
    None, Off, Unfixed, Failed, Other, Unused,
    Bounds  \* per instance the bounds of its counters

VARIABLES
    scenario,  \* the instance that the behaviour is of
    \* ConfigTransaction
    store, born, configStamp, mode, engine, configController, connected, rev,
    configShown, tasks, configLock, vpnLock, configBroken,
    \* ProfileStore
    index, raw, storeBackup, mem, txn, undo, storeGiven, storeStamp,
    storeBroken,
    \* RuleOrder
    orderRules, orderGiven,
    \* ProfileSettings
    base, pageBackup, over, pageActive, pageRules, geodata, chosen, typed,
    calls,
    \* ProxySelection
    pending, op, done, clean, tunnel, groups, selSaved, frame, fresh, vpn,
    best, revision, other, serving, selLeft,
    \* LogRecording
    marker, clock, file, archive, rec, run, step, ui, captured, dropped,
    logLeft,
    \* ResourceOperations
    config_revision, opActive, sequences, provider_refresh, opSaved,
    opController, system, locked, task, opShown, opLeft

configVars == <<store, born, configStamp, mode, engine, configController,
                connected, rev, configShown, tasks, configLock, vpnLock,
                configBroken>>
storeVars == <<index, raw, storeBackup, mem, txn, undo, storeGiven, storeStamp,
               storeBroken>>
orderVars == <<orderRules, orderGiven>>
pageVars == <<base, pageBackup, over, pageActive, pageRules, geodata, chosen,
              typed, calls>>
selVars == <<pending, op, done, clean, tunnel, groups, selSaved, frame, fresh,
             vpn, best, revision, other, serving, selLeft>>
logVars == <<marker, clock, file, archive, rec, run, step, ui, captured,
             dropped, logLeft>>
opVars == <<config_revision, opActive, sequences, provider_refresh, opSaved,
            opController, system, locked, task, opShown, opLeft>>

vars == <<scenario, configVars, storeVars, orderVars, pageVars, selVars,
          logVars, opVars>>

-----------------------------------------------------------------------------
\* The operations of a caller, and steps of a transaction that may fail.
AllKinds == {"import", "importPlain", "refresh", "refreshActivate", "activate",
             "delete", "rules", "storeEdit", "edit", "restore", "vpnConfig",
             "manual", "select", "startVpn", "patch", "mode", "subscription",
             "backup"}
PairKinds == {"edit", "activate", "delete", "startVpn", "mode"}
StepFaults == {"load", "controller", "io", "native"}
\* What runs beside a transaction, and failures that leave a trace.
BesideFaults == {"load", "delayTest", "control", "deleteIo"}

\* The calls of the profile store.
StoreCalls == {"import", "copies", "replace", "update", "backup", "delete", "meta",
               "traffic", "rules", "active"}

\* Plain documents: no settings, and two that set everything differently.
Alike(v) == [f \in {"nameserver", "fallback", "stack", "engine", "port", "allowLan",
                    "secret", "vpnEngine", "mixedPort"} |->
               IF f \in {"vpnEngine", "mixedPort"} THEN 0 ELSE v]
PlainDocs == {[fields |-> Alike(0), shape |-> "legacy"],
              [fields |-> Alike(1), shape |-> "default"],
              [fields |-> Alike(2), shape |-> "own"]}

-----------------------------------------------------------------------------

\* Every operation, and failures that a transaction undoes.
ConfigFaults == INSTANCE ConfigTransaction WITH
    Tasks <- {"t1", "loop"}, SyncLoop <- "loop", Profiles <- {"a", "b"},
    Kinds <- AllKinds, Faults <- StepFaults,
    MaxOps <- Bounds.configFaults.MaxOps, stamp <- configStamp,
    controller <- configController, shown <- configShown,
    broken <- configBroken

\* Two callers and the sync loop.
ConfigPairs == INSTANCE ConfigTransaction WITH
    Tasks <- {"t1", "t2", "loop"}, SyncLoop <- "loop", Profiles <- {"a", "b"},
    Kinds <- PairKinds, Faults <- {}, MaxOps <- Bounds.configPairs.MaxOps,
    stamp <- configStamp, controller <- configController, shown <- configShown,
    broken <- configBroken

\* Every operation, with delay tests, clients and half-done deletions beside
\* it.
ConfigBeside == INSTANCE ConfigTransaction WITH
    Tasks <- {"t1", "loop"}, SyncLoop <- "loop", Profiles <- {"a", "b"},
    Kinds <- AllKinds, Faults <- BesideFaults,
    MaxOps <- Bounds.configBeside.MaxOps, stamp <- configStamp,
    controller <- configController, shown <- configShown,
    broken <- configBroken

\* Steps, undone steps and reloads fail.
StoreFaults == INSTANCE ProfileStore WITH
    Procs <- {"ui"}, Profiles <- {1, 2},
    Kinds <- [q \in {"ui"} |-> StoreCalls \ {"traffic"}],
    Faults <- {"io", "undoIo", "reload"}, MaxOps <- 3, backup <- storeBackup,
    given <- storeGiven, stamp <- storeStamp, broken <- storeBroken

\* The process dies in any step; deletions, which a crash can leave half
\* done, are left out.
StoreCrash == INSTANCE ProfileStore WITH
    Procs <- {"ui"}, Profiles <- {1, 2},
    Kinds <- [q \in {"ui"} |-> StoreCalls \ {"delete"}],
    Faults <- {"io", "crash"}, MaxOps <- 4, backup <- storeBackup,
    given <- storeGiven, stamp <- storeStamp, broken <- storeBroken

\* Every rollback succeeds.
StoreAtomic == INSTANCE ProfileStore WITH
    Procs <- {"ui"}, Profiles <- {1, 2, 3},
    Kinds <- [q \in {"ui"} |-> StoreCalls \ {"traffic"}],
    Faults <- {"io", "reload"}, MaxOps <- 3, backup <- storeBackup,
    given <- storeGiven, stamp <- storeStamp, broken <- storeBroken

\* Three rules, two selectors of manual rules.
RuleOrder == INSTANCE RuleOrder WITH
    RuleIds <- {1, 2, 3}, Selectors <- {"site", "net", Other},
    Targets <- {"DIRECT", "Proxy"}, rules <- orderRules, given <- orderGiven

\* Every call on plain documents.
SettingsPages == INSTANCE ProfileSettings WITH
    Docs <- PlainDocs,
    Calls <- {"refresh", "edit", "restore", "dns", "vpn", "network"},
    MaxCalls <- 3, backup <- pageBackup, active <- pageActive,
    rules <- pageRules

\* Two choices, two other transactions.
SelectionFaults == INSTANCE ProxySelection WITH
    Proxies <- {"a", "b"}, FrameFails <- TRUE, SyncFails <- TRUE,
    MaxClicks <- Bounds.selectionFaults.MaxClicks,
    MaxOthers <- Bounds.selectionFaults.MaxOthers, saved <- selSaved,
    left <- selLeft

\* Two processes, three taps of the switch, one deletion of the archive.
LogArchive == INSTANCE LogRecording WITH
    Procs <- {"ui", "vpn"}, Loggers <- {"vpn"}, MaxMemory <- 1,
    MaxPending <- 2, MaxCaptures <- 2, MaxPushes <- 0, MaxToggles <- 3,
    MaxDeletes <- 1, MaxClears <- 0, MaxFaults <- 0, MaxRestarts <- 0,
    left <- logLeft

\* One process whose writes fail and that dies.
LogFaults == INSTANCE LogRecording WITH
    Procs <- {"ui"}, Loggers <- {"ui"}, MaxMemory <- 1, MaxPending <- 2,
    MaxCaptures <- 2, MaxPushes <- 1, MaxToggles <- 2, MaxDeletes <- 0,
    MaxClears <- 1, MaxFaults <- 1, MaxRestarts <- 1, left <- logLeft

\* Two callers, providers of each kind, another transaction.
OperationsRefresh == INSTANCE ResourceOperations WITH
    Tasks <- {"t1", "t2"}, Nodes <- {}, Providers <- {"inline", "rules"},
    InlineProviders <- {"inline"}, RuleProviders <- {"rules"},
    Profiles <- {"a", "b"}, MaxCalls <- Bounds.operationsRefresh.MaxCalls,
    MaxCommits <- Bounds.operationsRefresh.MaxCommits,
    MaxTurns <- Bounds.operationsRefresh.MaxTurns, active <- opActive,
    saved <- opSaved, controller <- opController, shown <- opShown,
    left <- opLeft

\* Two callers, a proxy and its group; what serves them changes.
OperationsTest == INSTANCE ResourceOperations WITH
    Tasks <- {"t1", "t2"}, Nodes <- {"n"}, Providers <- {"proxies"},
    InlineProviders <- {}, RuleProviders <- {}, Profiles <- {"a", "b"},
    MaxCalls <- Bounds.operationsTest.MaxCalls,
    MaxCommits <- Bounds.operationsTest.MaxCommits,
    MaxTurns <- Bounds.operationsTest.MaxTurns, active <- opActive,
    saved <- opSaved, controller <- opController, shown <- opShown,
    left <- opLeft

-----------------------------------------------------------------------------
\* The bounds of the run; the theorems about this module hold for any bounds.
SmallBounds ==
    [configFaults |-> [MaxOps |-> 3],
     configPairs |-> [MaxOps |-> 3],
     configBeside |-> [MaxOps |-> 2],
     selectionFaults |-> [MaxClicks |-> 2, MaxOthers |-> 2],
     operationsRefresh |-> [MaxCalls |-> 2, MaxCommits |-> 1, MaxTurns |-> 0],
     operationsTest |-> [MaxCalls |-> 2, MaxCommits |-> 1, MaxTurns |-> 1]]

-----------------------------------------------------------------------------
Scenarios == {"configFaults", "configPairs", "configBeside", "storeFaults",
              "storeCrash", "storeAtomic", "ruleOrder", "settingsPages",
              "selectionFaults", "logArchive", "logFaults",
              "operationsRefresh", "operationsTest"}

\* What the components assume of their constants holds in every instance.
ASSUME SuiteAssumption == ConfigFaults!ConstantsOK /\
    ConfigPairs!ConstantsOK /\ ConfigBeside!ConstantsOK /\
    StoreFaults!ConstantsOK /\ StoreCrash!ConstantsOK /\
    StoreAtomic!ConstantsOK /\ RuleOrder!ConstantsOK /\
    SettingsPages!ConstantsOK /\ SelectionFaults!ConstantsOK /\
    LogArchive!ConstantsOK /\ LogFaults!ConstantsOK /\
    OperationsRefresh!ConstantsOK /\ OperationsTest!ConstantsOK

ConfigInit ==
    \/ scenario = "configFaults" /\ ConfigFaults!Init
    \/ scenario = "configPairs" /\ ConfigPairs!Init
    \/ scenario = "configBeside" /\ ConfigBeside!Init
    \/ ~(scenario \in {"configFaults", "configPairs", "configBeside"})
       /\ store = Unused /\ born = Unused /\ configStamp = Unused /\
                         mode = Unused /\ engine = Unused /\
                         configController = Unused /\ connected = Unused /\
                         rev = Unused /\ configShown = Unused /\
                         tasks = Unused /\ configLock = Unused /\
                         vpnLock = Unused /\ configBroken = Unused
StoreInit ==
    \/ scenario = "storeFaults" /\ StoreFaults!Init
    \/ scenario = "storeCrash" /\ StoreCrash!Init
    \/ scenario = "storeAtomic" /\ StoreAtomic!Init
    \/ ~(scenario \in {"storeFaults", "storeCrash", "storeAtomic"})
       /\ index = Unused /\ raw = Unused /\ storeBackup = Unused /\
                         mem = Unused /\ txn = Unused /\ undo = Unused /\
                         storeGiven = Unused /\ storeStamp = Unused /\
                         storeBroken = Unused
OrderInit ==
    /\ RuleOrder!Init
PageInit ==
    \/ scenario = "settingsPages" /\ SettingsPages!Init
    \/ ~(scenario = "settingsPages")
       /\ base = Unused /\ pageBackup = Unused /\ over = Unused /\
                         pageActive = Unused /\ pageRules = Unused /\
                         geodata = Unused /\ chosen = Unused /\
                         typed = Unused /\ calls = Unused
SelInit ==
    \/ scenario = "selectionFaults" /\ SelectionFaults!Init
    \/ ~(scenario = "selectionFaults")
       /\ pending = Unused /\ op = Unused /\ done = Unused /\ clean = Unused /\
                         tunnel = Unused /\ groups = Unused /\
                         selSaved = Unused /\ frame = Unused /\
                         fresh = Unused /\ vpn = Unused /\ best = Unused /\
                         revision = Unused /\ other = Unused /\
                         serving = Unused /\ selLeft = Unused
LogInit ==
    \/ scenario = "logArchive" /\ LogArchive!Init
    \/ scenario = "logFaults" /\ LogFaults!Init
    \/ ~(scenario \in {"logArchive", "logFaults"})
       /\ marker = Unused /\ clock = Unused /\ file = Unused /\
                         archive = Unused /\ rec = Unused /\ run = Unused /\
                         step = Unused /\ ui = Unused /\ captured = Unused /\
                         dropped = Unused /\ logLeft = Unused
OpInit ==
    \/ scenario = "operationsRefresh" /\ OperationsRefresh!Init
    \/ scenario = "operationsTest" /\ OperationsTest!Init
    \/ ~(scenario \in {"operationsRefresh", "operationsTest"})
       /\ config_revision = Unused /\ opActive = Unused /\
                         sequences = Unused /\ provider_refresh = Unused /\
                         opSaved = Unused /\ opController = Unused /\
                         system = Unused /\ locked = Unused /\ task = Unused /\
                         opShown = Unused /\ opLeft = Unused

Init ==
    /\ scenario \in Scenarios
    /\ ConfigInit /\ StoreInit /\ OrderInit /\ PageInit /\ SelInit /\
       LogInit /\ OpInit

ConfigNext ==
    /\ scenario \in {"configFaults", "configPairs", "configBeside"}
    /\ UNCHANGED <<scenario, storeVars, orderVars, pageVars, selVars, logVars,
                   opVars>>
    /\ \/ scenario = "configFaults" /\ ConfigFaults!Next
       \/ scenario = "configPairs" /\ ConfigPairs!Next
       \/ scenario = "configBeside" /\ ConfigBeside!Next
StoreNext ==
    /\ scenario \in {"storeFaults", "storeCrash", "storeAtomic"}
    /\ UNCHANGED <<scenario, configVars, orderVars, pageVars, selVars, logVars,
                   opVars>>
    /\ \/ scenario = "storeFaults" /\ StoreFaults!Next
       \/ scenario = "storeCrash" /\ StoreCrash!Next
       \/ scenario = "storeAtomic" /\ StoreAtomic!Next
OrderNext ==
    /\ scenario = "ruleOrder"
    /\ UNCHANGED <<scenario, configVars, storeVars, pageVars, selVars, logVars,
                   opVars>>
    /\ RuleOrder!Next
PageNext ==
    /\ scenario = "settingsPages"
    /\ UNCHANGED <<scenario, configVars, storeVars, orderVars, selVars,
                   logVars, opVars>>
    /\ SettingsPages!Next
SelNext ==
    /\ scenario = "selectionFaults"
    /\ UNCHANGED <<scenario, configVars, storeVars, orderVars, pageVars,
                   logVars, opVars>>
    /\ SelectionFaults!Next
LogNext ==
    /\ scenario \in {"logArchive", "logFaults"}
    /\ UNCHANGED <<scenario, configVars, storeVars, orderVars, pageVars,
                   selVars, opVars>>
    /\ \/ scenario = "logArchive" /\ LogArchive!Next
       \/ scenario = "logFaults" /\ LogFaults!Next
OpNext ==
    /\ scenario \in {"operationsRefresh", "operationsTest"}
    /\ UNCHANGED <<scenario, configVars, storeVars, orderVars, pageVars,
                   selVars, logVars>>
    /\ \/ scenario = "operationsRefresh" /\ OperationsRefresh!Next
       \/ scenario = "operationsTest" /\ OperationsTest!Next

Next == ConfigNext \/ StoreNext \/ OrderNext \/ PageNext \/ SelNext \/
        LogNext \/ OpNext

Spec == Init /\ [][Next]_vars

-----------------------------------------------------------------------------
\* The variables of every component hold what the code can put in them.
TypesOK ==
    /\ scenario = "configFaults" => ConfigFaults!TypeOK
    /\ scenario = "storeCrash" => StoreCrash!TypeOK
    /\ scenario = "selectionFaults" => SelectionFaults!TypeOK
    /\ scenario = "logArchive" => LogArchive!TypeOK
    /\ scenario = "operationsTest" => OperationsTest!TypeOK

\* Configuration transactions of Core leave the engine, the store and the
\* revision in step, whatever failed or raced.
ConfigIsConsistent ==
    \* Between transactions the engine runs what the store holds of the
    \* active profile, whatever failed on the way (reload_config and the
    \* rollbacks of each operation).
    /\ [](/\ scenario = "configFaults" => ConfigFaults!RuntimeMatchesStore
          /\ scenario = "configPairs" => ConfigPairs!RuntimeMatchesStore
          /\ scenario = "configBeside" => ConfigBeside!RuntimeMatchesStore)
    \* Between transactions a config_revision stands for one configuration
    \* (ensure_config_revision_locked).
    /\ [](/\ scenario = "configFaults" => ConfigFaults!RevisionIdentifiesConfig
          /\ scenario = "configPairs" => ConfigPairs!RevisionIdentifiesConfig)
    \* Between transactions the tunnel routes in the mode that Core reports
    \* (set_mode against reloads).
    /\ [](/\ scenario = "configFaults" => ConfigFaults!ModeApplied
          /\ scenario = "configPairs" => ConfigPairs!ModeApplied)
    \* A transaction that names a revision commits over the configuration its
    \* caller saw: no lost update.
    /\ [][/\ scenario = "configFaults" => ConfigFaults!CommitSawStore
          /\ scenario = "configPairs" => ConfigPairs!CommitSawStore]_vars
    \* What is recorded of a proxy, group or provider is the outcome of its
    \* newest operation, begun under the current configuration
    \* (ensure_resource_operation_current_locked).
    /\ [][/\ scenario = "operationsRefresh" => OperationsRefresh!NewestIsShown
          /\ scenario = "operationsTest" => OperationsTest!NewestIsShown]_vars
    \* The reload that ends a refresh undoes a change of the profile only if
    \* that came between the check of the operation and the reading of the
    \* revision.
    /\ [][scenario = "operationsRefresh" => OperationsRefresh!ProfileIsKept]_vars
    \* What a group test saves, it saves for the profile that was tested.
    /\ [][scenario = "operationsTest" => OperationsTest!TestedProfileIsSaved]_vars

\* The profile store loses nothing and stays readable through failures and
\* crashes, and its transactions are atomic.
StoreIsSound ==
    \* While every rollback succeeds, a process that starts between calls can
    \* open the store (validate_store_index).
    /\ [](scenario = "storeFaults" => StoreFaults!OpensBetweenCalls)
    \* Between calls the copy in memory is the index on disk, also after
    \* failures, so that the next save loses nothing.
    /\ [](scenario = "storeFaults" => StoreFaults!MemoryIsIndex)
    \* A save changes what its own call is about and nothing of another
    \* profile.
    /\ [][scenario = "storeFaults" => StoreFaults!SaveKeepsOthers]_vars
    \* Whichever step the process dies in, the next one can open what is on
    \* disk.
    /\ [](scenario = "storeCrash" => StoreCrash!NobodyIsLockedOut)
    \* To a caller every transaction happens at once, or fails and changes
    \* nothing (AtomicStore; commit_staged_with_files, commit_staged_delete).
    /\ scenario = "storeAtomic" => StoreAtomic!Atomic!Init
    /\ [][scenario = "storeAtomic" => StoreAtomic!AtomicStep]_vars

\* The rules of a profile behave as the list the user sees.
RulesAreAList ==
    \* Whatever sequence of imports, moves, deletions, toggles and manual
    \* rules: sorting by order number yields the user's list (RuleList).
    /\ scenario = "ruleOrder" => RuleOrder!Abstract!Init
    /\ [][scenario = "ruleOrder" => RuleOrder!ListStep]_vars
    \* Two rules never share an order number, so the order does not hang on
    \* the spelling of ids.
    /\ [](scenario = "ruleOrder" => RuleOrder!OrdersAreDistinct)

\* The pages and refreshes of a profile keep what the user chose and leave a
\* configuration that starts.
SettingsHold ==
    \* What the user chose on a page stays in effect through refreshes,
    \* restores and the saving of other pages (user_overrides).
    /\ scenario = "settingsPages" => SettingsPages!ChoicesStay
    \* A configuration that was accepted can be rendered: no page or refresh
    \* leaves a profile that refuses to start (render_runtime_yaml).
    /\ scenario = "settingsPages" => SettingsPages!AlwaysRenders
    \* The runtime configuration of a generated subscription names geodata
    \* only if the file is there.
    /\ scenario = "settingsPages" => SettingsPages!NoRuleWithoutData
    \* Generated subscriptions route by region once the geodata is there,
    \* also those generated by older versions.
    /\ scenario = "settingsPages" => SettingsPages!LegacyRoutesByRegion
    \* The user's rules decide before the subscription's, in the order they
    \* have.
    /\ scenario = "settingsPages" => SettingsPages!UserRulesFirst

\* Between choices, unless one has failed since, the tunnel, the UI, the
\* profile and the VPN agree on the chosen proxy (select_proxy).
AllAgree ==
    /\ scenario = "selectionFaults" => SelectionFaults!AllAgree

\* The log archive holds what was logged in the recorded session: no more, no
\* less and in order.
LogIsFaithful ==
    \* Each engine entry is archived once and in order, whatever writes
    \* failed or crossed a change of session (RuntimeLogBuffer::sync).
    /\ scenario = "logArchive" => LogArchive!OnceInOrder
    /\ scenario = "logFaults" => LogFaults!OnceInOrder
    \* What is archived was logged while recording was on, for that very
    \* session, though a process notices late that it was off.
    /\ scenario = "logArchive" => LogArchive!OnlyWhileOn
    \* What was logged in the recorded session is archived or still to be
    \* written, unless it was one too many, cleared, or in a process that
    \* died.
    /\ scenario = "logArchive" => LogArchive!NothingLost
    /\ scenario = "logFaults" => LogFaults!NothingLost
=============================================================================
