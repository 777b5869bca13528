-------------------------------- MODULE MCVpn -------------------------------
(*****************************************************************************)
(*  Instances of the components of the VPN process, and of its lane to the   *)
(* UI, for safety. The scenario, chosen in the initial state, is the         *)
(* instance that a behaviour is of; the variables of the other components    *)
(* are Unused.                                                               *)
(*****************************************************************************)
EXTENDS Naturals, Sequences

CONSTANTS
    None, Torn, m1, s1, s2, Unused,
    Bounds  \* per instance the bounds of its counters

VARIABLES
    scenario,  \* the instance that the behaviour is of
    \* PlatformLane
    slot, next, published, lock, mem, job, laneClock, stamp, version,
    laneFrames, reader, seen, applied, laneCounts,
    \* ChangeNotification
    ui, backlog, made, peer, boot, notifySub, toUi, toPeer, notifyFrames, read,
    notifyTold, notifyCounts,
    \* TunSession
    gen, life, task, worker, halted, exit, op, core, mixed, proxy, watchers,
    ability, syncs, startedFor,
    \* EngineReload
    engineControl, engineEdits, woken, stopping, attempts, pc, ab, engineSub,
    chain, calls, yaml, eng, net, moves, mon, engineProbes, forced,
    \* UdpFlows
    phase, sessions, conns, flowTasks, tracked, drained, flowRoute, stale,
    flowLeft,
    \* DnsMapping
    dnsNow, table, cache, dnsTasks, dnsTold, deadline, flow, dnsLeft,
    \* EnginePolicy
    active, node, gates, checks, policyNow, vpn, shown, persists, evidence,
    policyProbes, report, again, issued, policyEdits,
    \* RouteWatch
    policy, session, config_revision, set, watchControl, known, watchClock,
    minute, watch, committed, chosen, crossed, half, watchLeft,
    \* ExitLocation
    connected, exitRoute, recorded, exit_location, exit_error,
    last_exit_location_check, exit_location_revision, probe, exitLeft

laneVars == <<slot, next, published, lock, mem, job, laneClock, stamp, version,
              laneFrames, reader, seen, applied, laneCounts>>
notifyVars == <<ui, backlog, made, peer, boot, notifySub, toUi, toPeer,
                notifyFrames, read, notifyTold, notifyCounts>>
tunVars == <<gen, life, task, worker, halted, exit, op, core, mixed, proxy,
             watchers, ability, syncs, startedFor>>
engineVars == <<engineControl, engineEdits, woken, stopping, attempts, pc, ab,
                engineSub, chain, calls, yaml, eng, net, moves, mon,
                engineProbes, forced>>
flowVars == <<phase, sessions, conns, flowTasks, tracked, drained, flowRoute,
              stale, flowLeft>>
dnsVars == <<dnsNow, table, cache, dnsTasks, dnsTold, deadline, flow, dnsLeft>>
policyVars == <<active, node, gates, checks, policyNow, vpn, shown, persists,
                evidence, policyProbes, report, again, issued, policyEdits>>
watchVars == <<policy, session, config_revision, set, watchControl, known,
               watchClock, minute, watch, committed, chosen, crossed, half,
               watchLeft>>
exitVars == <<connected, exitRoute, recorded, exit_location, exit_error,
              last_exit_location_check, exit_location_revision, probe,
              exitLeft>>

vars == <<scenario, laneVars, notifyVars, tunVars, engineVars, flowVars,
          dnsVars, policyVars, watchVars, exitVars>>

-----------------------------------------------------------------------------
Address(n, a, t) == [name |-> n, ip |-> a, ttl |-> t]
Alias(n, m) == [alias |-> n, target |-> m]
\* An alias of a shared name has two TTLs, one above what the table takes.
SteadyAnswers ==
    [h \in {"a", "b"} |->
        IF h = "a" THEN {<<Alias("a", "cdn"), Address("cdn", 1, t)>> : t \in {2, 4}}
        ELSE {<<Address("b", 1, 1), Address("b", 2, 1)>>}]
\* More addresses than fit, and an answer that must not be kept at all.
CrowdedAnswers ==
    [h \in {"a", "b"} |->
        IF h = "a" THEN {<<Address("a", 1, 2), Address("a", 2, 0)>>}
        ELSE {<<Address("b", 2, 3)>>, <<Address("b", 1, 1)>>}]

-----------------------------------------------------------------------------

\* The lane of the UI: both of its writers hold the state lock.
LaneUi == INSTANCE PlatformLane WITH
    Publishers <- {"state", "control"}, Locked <- {"state", "control"},
    BigFrames <- {}, MaxPublications <- Bounds.laneUi.MaxPublications,
    MaxAcks <- 0, MaxRebinds <- 0, MaxClockBack <- Bounds.laneUi.MaxClockBack,
    clock <- laneClock, frames <- laneFrames, counts <- laneCounts

\* The writer dies and binds again, the clock is set back.
LaneCrash == INSTANCE PlatformLane WITH
    Publishers <- {"state"}, Locked <- {"state"}, BigFrames <- {},
    MaxPublications <- Bounds.laneCrash.MaxPublications, MaxAcks <- 0,
    MaxRebinds <- Bounds.laneCrash.MaxRebinds,
    MaxClockBack <- Bounds.laneCrash.MaxClockBack, clock <- laneClock,
    frames <- laneFrames, counts <- laneCounts

\* The lane of the VPN: telemetry is written beside the state.
LaneWriters == INSTANCE PlatformLane WITH
    Publishers <- {"state", "telemetry"}, Locked <- {"state"},
    BigFrames <- {"telemetry"},
    MaxPublications <- Bounds.laneWriters.MaxPublications,
    MaxAcks <- Bounds.laneWriters.MaxAcks,
    MaxRebinds <- Bounds.laneWriters.MaxRebinds,
    MaxClockBack <- Bounds.laneWriters.MaxClockBack, clock <- laneClock,
    frames <- laneFrames, counts <- laneCounts

\* An acknowledgement is written through a binding of its own beside the
\* state.
LaneAck == INSTANCE PlatformLane WITH
    Publishers <- {"state"}, Locked <- {"state"}, BigFrames <- {},
    MaxPublications <- Bounds.laneAck.MaxPublications,
    MaxAcks <- Bounds.laneAck.MaxAcks, MaxRebinds <- Bounds.laneAck.MaxRebinds,
    MaxClockBack <- Bounds.laneAck.MaxClockBack, clock <- laneClock,
    frames <- laneFrames, counts <- laneCounts

\* Three frames of each side, one cancelled wait.
NotifyWake == INSTANCE ChangeNotification WITH
    MaxFrames <- Bounds.notifyWake.MaxFrames, MaxAcks <- 0, MaxDeaths <- 0,
    MaxCancels <- Bounds.notifyWake.MaxCancels, sub <- notifySub,
    frames <- notifyFrames, told <- notifyTold, counts <- notifyCounts

\* The Extension dies and binds again.
NotifyOwner == INSTANCE ChangeNotification WITH
    MaxFrames <- Bounds.notifyOwner.MaxFrames, MaxAcks <- 0,
    MaxDeaths <- Bounds.notifyOwner.MaxDeaths,
    MaxCancels <- Bounds.notifyOwner.MaxCancels, sub <- notifySub,
    frames <- notifyFrames, told <- notifyTold, counts <- notifyCounts

\* Ports are taken, publishing fails.
TunFaults == INSTANCE TunSession WITH
    Attempts <- Bounds.tunFaults.Attempts,
    MaxSyncs <- Bounds.tunFaults.MaxSyncs, Lwip <- FALSE, PortTaken <- TRUE,
    PersistFails <- TRUE

\* Nothing but a worker fails.
TunListeners == INSTANCE TunSession WITH
    Attempts <- Bounds.tunListeners.Attempts,
    MaxSyncs <- Bounds.tunListeners.MaxSyncs, Lwip <- FALSE,
    PortTaken <- FALSE, PersistFails <- FALSE

\* mihomo, which may refuse a configuration or a TUN.
EngineFaults == INSTANCE EngineReload WITH
    Engine <- "mihomo", Attempts <- Bounds.engineFaults.Attempts,
    Modes <- {m1}, Sels <- {s1, s2}, MaxEdits <- Bounds.engineFaults.MaxEdits,
    MaxHandovers <- Bounds.engineFaults.MaxHandovers, Fails <- TRUE,
    StartEdits <- TRUE, EarlyHandover <- TRUE, SlowProbe <- TRUE,
    control <- engineControl, edits <- engineEdits, sub <- engineSub,
    probes <- engineProbes

\* sing-box.
EngineSingBox == INSTANCE EngineReload WITH
    Engine <- "sing-box", Attempts <- Bounds.engineSingBox.Attempts,
    Modes <- {m1}, Sels <- {s1, s2}, MaxEdits <- Bounds.engineSingBox.MaxEdits,
    MaxHandovers <- Bounds.engineSingBox.MaxHandovers, Fails <- FALSE,
    StartEdits <- TRUE, EarlyHandover <- TRUE, SlowProbe <- TRUE,
    control <- engineControl, edits <- engineEdits, sub <- engineSub,
    probes <- engineProbes

\* Three datagrams of one flow.
FlowsRace == INSTANCE UdpFlows WITH
    Keys <- {"k1"}, MaxDatagrams <- Bounds.flowsRace.MaxDatagrams,
    MaxStreams <- Bounds.flowsRace.MaxStreams,
    MaxRoutes <- Bounds.flowsRace.MaxRoutes,
    MaxSweeps <- Bounds.flowsRace.MaxSweeps, tasks <- flowTasks,
    route <- flowRoute, left <- flowLeft

\* Two datagrams, and a change of the route.
FlowsRoutes == INSTANCE UdpFlows WITH
    Keys <- {"k1"}, MaxDatagrams <- Bounds.flowsRoutes.MaxDatagrams,
    MaxStreams <- Bounds.flowsRoutes.MaxStreams,
    MaxRoutes <- Bounds.flowsRoutes.MaxRoutes,
    MaxSweeps <- Bounds.flowsRoutes.MaxSweeps, tasks <- flowTasks,
    route <- flowRoute, left <- flowLeft

\* A table and a cache that overflow.
DnsCrowded == INSTANCE DnsMapping WITH
    Hosts <- {"a", "b"}, Aliases <- {"cdn"}, Ips <- {1, 2},
    Answers <- CrowdedAnswers, Second <- 2, MaxCacheTtl <- 2, MaxTableTtl <- 3,
    MaxCached <- 1, MaxMapped <- 1, MaxPerIp <- 1, Burst <- 2, MaxQueries <- 3,
    MaxFlows <- 0, MaxFlushes <- 1, MaxTime <- 4, now <- dnsNow,
    tasks <- dnsTasks, told <- dnsTold, left <- dnsLeft

\* Room for everything, and a flow.
DnsSteady == INSTANCE DnsMapping WITH
    Hosts <- {"a", "b"}, Aliases <- {"cdn"}, Ips <- {1, 2},
    Answers <- SteadyAnswers, Second <- 2, MaxCacheTtl <- 2, MaxTableTtl <- 3,
    MaxCached <- 2, MaxMapped <- 2, MaxPerIp <- 2, Burst <- 1, MaxQueries <- 3,
    MaxFlows <- 1, MaxFlushes <- 0, MaxTime <- 6, now <- dnsNow,
    tasks <- dnsTasks, told <- dnsTold, left <- dnsLeft

\* Two sessions: a failed check and the rollback.
PolicyFaults == INSTANCE EnginePolicy WITH
    Profiles <- {"p", "q"}, Nodes <- {"n"}, NoSingBox <- {}, NoMeow <- {},
    Plugins <- {"q"}, Cooldown <- 1, MaxSessions <- 2, MaxTime <- 1,
    MaxEdits <- 1, now <- policyNow, probes <- policyProbes,
    edits <- policyEdits

\* Three changes of profile, node and gates around one session.
PolicyGates == INSTANCE EnginePolicy WITH
    Profiles <- {"p", "q"}, Nodes <- {"n", "m"}, NoSingBox <- {"p"},
    NoMeow <- {}, Plugins <- {"q"}, Cooldown <- 1, MaxSessions <- 1,
    MaxTime <- 1, MaxEdits <- 3, now <- policyNow, probes <- policyProbes,
    edits <- policyEdits

\* Time for two recoveries, and a choice of the user.
RouteRecovery == INSTANCE RouteWatch WITH
    Nodes <- {"n", "m", "group"}, Leaves <- {"n", "m"}, Targets <- {"s"},
    Cooldown <- 1, MaxTicks <- 4, MaxChoices <- 1, MaxPolicies <- 1,
    MaxCommits <- 1, MaxSessions <- 1, control <- watchControl,
    clock <- watchClock, left <- watchLeft

\* Two services, two changes of the route.
ExitAddress == INSTANCE ExitLocation WITH
    Routes <- {"n", "m"}, Providers <- {"p", "q"}, Retry <- 1, Refresh <- 3,
    MaxRoutes <- 2, MaxTurns <- 2, route <- exitRoute, left <- exitLeft

-----------------------------------------------------------------------------
\* The bounds of the run; the theorems about this module hold for any bounds.
SmallBounds ==
    [laneUi |-> [MaxPublications |-> 4, MaxClockBack |-> 0],
     laneCrash |-> [MaxPublications |-> 3, MaxRebinds |-> 1,
                    MaxClockBack |-> 1],
     laneWriters |-> [MaxPublications |-> 3, MaxAcks |-> 0, MaxRebinds |-> 0,
                      MaxClockBack |-> 0],
     laneAck |-> [MaxPublications |-> 2, MaxAcks |-> 1, MaxRebinds |-> 0,
                  MaxClockBack |-> 0],
     notifyWake |-> [MaxFrames |-> 3, MaxCancels |-> 1],
     notifyOwner |-> [MaxFrames |-> 2, MaxDeaths |-> 1, MaxCancels |-> 1],
     tunFaults |-> [Attempts |-> 2, MaxSyncs |-> 1],
     tunListeners |-> [Attempts |-> 2, MaxSyncs |-> 1],
     engineFaults |-> [Attempts |-> 2, MaxEdits |-> 1, MaxHandovers |-> 1],
     engineSingBox |-> [Attempts |-> 2, MaxEdits |-> 1, MaxHandovers |-> 1],
     flowsRace |-> [MaxDatagrams |-> 3, MaxStreams |-> 0, MaxRoutes |-> 0,
                    MaxSweeps |-> 1],
     flowsRoutes |-> [MaxDatagrams |-> 2, MaxStreams |-> 0, MaxRoutes |-> 1,
                      MaxSweeps |-> 1]]

-----------------------------------------------------------------------------
Scenarios == {"laneUi", "laneCrash", "laneWriters", "laneAck", "notifyWake",
              "notifyOwner", "tunFaults", "tunListeners", "engineFaults",
              "engineSingBox", "flowsRace", "flowsRoutes", "dnsCrowded",
              "dnsSteady", "policyFaults", "policyGates", "routeRecovery",
              "exitAddress"}

\* What the components assume of their constants holds in every instance.
ASSUME SuiteAssumption == LaneUi!ConstantsOK /\ LaneCrash!ConstantsOK /\
    LaneWriters!ConstantsOK /\ LaneAck!ConstantsOK /\ NotifyWake!ConstantsOK /\
    NotifyOwner!ConstantsOK /\ TunFaults!ConstantsOK /\
    TunListeners!ConstantsOK /\ EngineFaults!ConstantsOK /\
    EngineSingBox!ConstantsOK /\ FlowsRace!ConstantsOK /\
    FlowsRoutes!ConstantsOK /\ DnsCrowded!ConstantsOK /\
    DnsSteady!ConstantsOK /\ PolicyFaults!ConstantsOK /\
    PolicyGates!ConstantsOK /\ RouteRecovery!ConstantsOK /\
    ExitAddress!ConstantsOK

LaneInit ==
    \/ scenario = "laneUi" /\ LaneUi!Init
    \/ scenario = "laneCrash" /\ LaneCrash!Init
    \/ scenario = "laneWriters" /\ LaneWriters!Init
    \/ scenario = "laneAck" /\ LaneAck!Init
    \/ ~(scenario \in {"laneUi", "laneCrash", "laneWriters", "laneAck"})
       /\ slot = Unused /\ next = Unused /\ published = Unused /\
                      lock = Unused /\ mem = Unused /\ job = Unused /\
                      laneClock = Unused /\ stamp = Unused /\
                      version = Unused /\ laneFrames = Unused /\
                      reader = Unused /\ seen = Unused /\ applied = Unused /\
                      laneCounts = Unused
NotifyInit ==
    \/ scenario = "notifyWake" /\ NotifyWake!Init
    \/ scenario = "notifyOwner" /\ NotifyOwner!Init
    \/ ~(scenario \in {"notifyWake", "notifyOwner"})
       /\ ui = Unused /\ backlog = Unused /\ made = Unused /\ peer = Unused /\
                      boot = Unused /\ notifySub = Unused /\ toUi = Unused /\
                      toPeer = Unused /\ notifyFrames = Unused /\
                      read = Unused /\ notifyTold = Unused /\
                      notifyCounts = Unused
TunInit ==
    \/ scenario = "tunFaults" /\ TunFaults!Init
    \/ scenario = "tunListeners" /\ TunListeners!Init
    \/ ~(scenario \in {"tunFaults", "tunListeners"})
       /\ gen = Unused /\ life = Unused /\ task = Unused /\ worker = Unused /\
                      halted = Unused /\ exit = Unused /\ op = Unused /\
                      core = Unused /\ mixed = Unused /\ proxy = Unused /\
                      watchers = Unused /\ ability = Unused /\
                      syncs = Unused /\ startedFor = Unused
EngineInit ==
    \/ scenario = "engineFaults" /\ EngineFaults!Init
    \/ scenario = "engineSingBox" /\ EngineSingBox!Init
    \/ ~(scenario \in {"engineFaults", "engineSingBox"})
       /\ engineControl = Unused /\ engineEdits = Unused /\ woken = Unused /\
                      stopping = Unused /\ attempts = Unused /\ pc = Unused /\
                      ab = Unused /\ engineSub = Unused /\ chain = Unused /\
                      calls = Unused /\ yaml = Unused /\ eng = Unused /\
                      net = Unused /\ moves = Unused /\ mon = Unused /\
                      engineProbes = Unused /\ forced = Unused
FlowInit ==
    \/ scenario = "flowsRace" /\ FlowsRace!Init
    \/ scenario = "flowsRoutes" /\ FlowsRoutes!Init
    \/ ~(scenario \in {"flowsRace", "flowsRoutes"})
       /\ phase = Unused /\ sessions = Unused /\ conns = Unused /\
                      flowTasks = Unused /\ tracked = Unused /\
                      drained = Unused /\ flowRoute = Unused /\
                      stale = Unused /\ flowLeft = Unused
DnsInit ==
    \/ scenario = "dnsCrowded" /\ DnsCrowded!Init
    \/ scenario = "dnsSteady" /\ DnsSteady!Init
    \/ ~(scenario \in {"dnsCrowded", "dnsSteady"})
       /\ dnsNow = Unused /\ table = Unused /\ cache = Unused /\
                      dnsTasks = Unused /\ dnsTold = Unused /\
                      deadline = Unused /\ flow = Unused /\ dnsLeft = Unused
PolicyInit ==
    \/ scenario = "policyFaults" /\ PolicyFaults!Init
    \/ scenario = "policyGates" /\ PolicyGates!Init
    \/ ~(scenario \in {"policyFaults", "policyGates"})
       /\ active = Unused /\ node = Unused /\ gates = Unused /\
                      checks = Unused /\ policyNow = Unused /\ vpn = Unused /\
                      shown = Unused /\ persists = Unused /\
                      evidence = Unused /\ policyProbes = Unused /\
                      report = Unused /\ again = Unused /\ issued = Unused /\
                      policyEdits = Unused
WatchInit ==
    \/ scenario = "routeRecovery" /\ RouteRecovery!Init
    \/ ~(scenario = "routeRecovery")
       /\ policy = Unused /\ session = Unused /\ config_revision = Unused /\
                      set = Unused /\ watchControl = Unused /\
                      known = Unused /\ watchClock = Unused /\
                      minute = Unused /\ watch = Unused /\
                      committed = Unused /\ chosen = Unused /\
                      crossed = Unused /\ half = Unused /\ watchLeft = Unused
ExitInit ==
    \/ scenario = "exitAddress" /\ ExitAddress!Init
    \/ ~(scenario = "exitAddress")
       /\ connected = Unused /\ exitRoute = Unused /\ recorded = Unused /\
                      exit_location = Unused /\ exit_error = Unused /\
                      last_exit_location_check = Unused /\
                      exit_location_revision = Unused /\ probe = Unused /\
                      exitLeft = Unused

Init ==
    /\ scenario \in Scenarios
    /\ LaneInit /\ NotifyInit /\ TunInit /\ EngineInit /\ FlowInit /\
       DnsInit /\ PolicyInit /\ WatchInit /\ ExitInit

LaneNext ==
    /\ scenario \in {"laneUi", "laneCrash", "laneWriters", "laneAck"}
    /\ UNCHANGED <<scenario, notifyVars, tunVars, engineVars, flowVars,
                   dnsVars, policyVars, watchVars, exitVars>>
    /\ \/ scenario = "laneUi" /\ LaneUi!Next
       \/ scenario = "laneCrash" /\ LaneCrash!Next
       \/ scenario = "laneWriters" /\ LaneWriters!Next
       \/ scenario = "laneAck" /\ LaneAck!Next
NotifyNext ==
    /\ scenario \in {"notifyWake", "notifyOwner"}
    /\ UNCHANGED <<scenario, laneVars, tunVars, engineVars, flowVars, dnsVars,
                   policyVars, watchVars, exitVars>>
    /\ \/ scenario = "notifyWake" /\ NotifyWake!Next
       \/ scenario = "notifyOwner" /\ NotifyOwner!Next
TunNext ==
    /\ scenario \in {"tunFaults", "tunListeners"}
    /\ UNCHANGED <<scenario, laneVars, notifyVars, engineVars, flowVars,
                   dnsVars, policyVars, watchVars, exitVars>>
    /\ \/ scenario = "tunFaults" /\ TunFaults!Next
       \/ scenario = "tunListeners" /\ TunListeners!Next
EngineNext ==
    /\ scenario \in {"engineFaults", "engineSingBox"}
    /\ UNCHANGED <<scenario, laneVars, notifyVars, tunVars, flowVars, dnsVars,
                   policyVars, watchVars, exitVars>>
    /\ \/ scenario = "engineFaults" /\ EngineFaults!Next
       \/ scenario = "engineSingBox" /\ EngineSingBox!Next
FlowNext ==
    /\ scenario \in {"flowsRace", "flowsRoutes"}
    /\ UNCHANGED <<scenario, laneVars, notifyVars, tunVars, engineVars,
                   dnsVars, policyVars, watchVars, exitVars>>
    /\ \/ scenario = "flowsRace" /\ FlowsRace!Next
       \/ scenario = "flowsRoutes" /\ FlowsRoutes!Next
DnsNext ==
    /\ scenario \in {"dnsCrowded", "dnsSteady"}
    /\ UNCHANGED <<scenario, laneVars, notifyVars, tunVars, engineVars,
                   flowVars, policyVars, watchVars, exitVars>>
    /\ \/ scenario = "dnsCrowded" /\ DnsCrowded!Next
       \/ scenario = "dnsSteady" /\ DnsSteady!Next
PolicyNext ==
    /\ scenario \in {"policyFaults", "policyGates"}
    /\ UNCHANGED <<scenario, laneVars, notifyVars, tunVars, engineVars,
                   flowVars, dnsVars, watchVars, exitVars>>
    /\ \/ scenario = "policyFaults" /\ PolicyFaults!Next
       \/ scenario = "policyGates" /\ PolicyGates!Next
WatchNext ==
    /\ scenario = "routeRecovery"
    /\ UNCHANGED <<scenario, laneVars, notifyVars, tunVars, engineVars,
                   flowVars, dnsVars, policyVars, exitVars>>
    /\ RouteRecovery!Next
ExitNext ==
    /\ scenario = "exitAddress"
    /\ UNCHANGED <<scenario, laneVars, notifyVars, tunVars, engineVars,
                   flowVars, dnsVars, policyVars, watchVars>>
    /\ ExitAddress!Next

Next == LaneNext \/ NotifyNext \/ TunNext \/ EngineNext \/ FlowNext \/
        DnsNext \/ PolicyNext \/ WatchNext \/ ExitNext

Spec == Init /\ [][Next]_vars

-----------------------------------------------------------------------------
\* The variables of every component hold what the code can put in them.
TypesOK ==
    /\ scenario = "laneUi" => LaneUi!TypeOK
    /\ scenario = "tunFaults" => TunFaults!TypeOK
    /\ scenario = "engineFaults" => EngineFaults!TypeOK
    /\ scenario = "flowsRace" => FlowsRace!TypeOK
    /\ scenario = "dnsCrowded" => DnsCrowded!TypeOK
    /\ scenario = "policyGates" => PolicyGates!TypeOK
    /\ scenario = "routeRecovery" => RouteRecovery!TypeOK
    /\ scenario = "exitAddress" => ExitAddress!TypeOK

\* A lane is a regular register of whole frames, though writers lap its
\* readers, die and bind again.
LaneIsRegular ==
    \* What a read returns was published as a whole and under that
    \* generation, however often writers lap the reader (read_lane).
    /\ scenario = "laneUi" => LaneUi!NoTornFrame
    /\ scenario = "laneWriters" => LaneWriters!NoTornFrame
    /\ scenario = "laneAck" => LaneAck!NoTornFrame
    \* A read that at most one publication overlaps returns a frame at least
    \* as new as the latest when it began: the second slot is enough.
    /\ scenario = "laneUi" => LaneUi!ReadIsRegular
    \* With no publication under way the newest frame of the lane holds the
    \* newest state, also after a new binding numbers on (publish_state).
    /\ scenario = "laneUi" => LaneUi!LaneIsCurrent
    /\ scenario = "laneCrash" => LaneCrash!LaneIsCurrent

\* Nobody sleeps through a publication of the other side.
NoLostWakeup ==
    \* A parked pump of the UI has read every frame whose publication has
    \* returned, or a descriptor of it is ready.
    /\ scenario = "notifyWake" => NotifyWake!PumpWillWake
    \* The subscription of a live owner ends only if it is cancelled or the
    \* UI dies.
    /\ scenario = "notifyWake" => NotifyWake!SubscriptionLives
    \* A parked subscription of the Extension has read every frame of the UI,
    \* or will wake: no stop is slept through.
    /\ scenario = "notifyOwner" => NotifyOwner!OwnerWillWake

\* Workers and listeners of the native TUN session belong to the attempt that
\* runs.
TunWorkerIsOwned ==
    \* When the cleanup goes on to destroy the connection, no worker and no
    \* listener is left, even if the controller restarts the worker at that
    \* moment (stop_vpn_inner).
    /\ [](scenario = "tunFaults" => TunFaults!CleanupIsComplete)
    \* An attempt that fails because a worker failed had that worker: no late
    \* watcher or tick blames the next attempt (publish_native_vpn_exit,
    \* extension_tick).
    /\ [][scenario = "tunFaults" => TunFaults!BlameIsOwn]_vars
    \* Two workers never drive the TUN at the same time, however starts,
    \* stops and restarts by the controller follow each other.
    /\ [](scenario = "tunListeners" => TunListeners!OneWorker)
    \* While a session is connected its listeners are up: the watcher of an
    \* earlier worker never takes them down.
    /\ [](scenario = "tunListeners" => TunListeners!ListenersServe)

\* The engine is on the TUN of the session that is up, and on no other.
EngineOnItsTun ==
    \* An engine reads only the TUN of the session the Ability holds: a setup
    \* that calls back late gives it none (quickSetup).
    /\ scenario = "engineFaults" => EngineFaults!TunHasOwner
    /\ scenario = "engineSingBox" => EngineSingBox!TunHasOwner
    \* While a session is up its engine is on its TUN, since the tick reports
    \* it connected without asking.
    /\ scenario = "engineFaults" => EngineFaults!ConnectedIsCarried
    /\ scenario = "engineSingBox" => EngineSingBox!ConnectedIsCarried

\* Flows of the network stack have a reader while they live and none after
\* the worker.
FlowsAreServed ==
    \* A session of the map has a reader of that flow, whatever datagrams
    \* raced or sessions were swept (handle_udp_datagram).
    /\ scenario = "flowsRace" => FlowsRace!SessionHasReader
    /\ scenario = "flowsRoutes" => FlowsRoutes!SessionHasReader
    \* No stream or datagram is handled any more when the worker has ended
    \* (run_netstack_vpn).
    /\ scenario = "flowsRace" => FlowsRace!FlowsEnd
    /\ scenario = "flowsRoutes" => FlowsRoutes!FlowsEnd

\* The DNS table and cache say of a flow what the resolver said, and no
\* longer than it said.
DnsIsHonest ==
    \* Nothing the resolver said is used a second or more after its time,
    \* however often the cache answered in between.
    /\ scenario = "dnsCrowded" => DnsCrowded!NotStale
    \* While an app holds an answer, the table knows the host the app asked
    \* for, up to an hour and up to the end of the answers for that host and
    \* address that came later.
    /\ scenario = "dnsSteady" => DnsSteady!MappedWhileTold
    \* A flow is not called by a host its app did not mean while the mapping
    \* of its own host lasts: with several hosts on an address the table does
    \* not guess (DnsTable::lookup).
    /\ scenario = "dnsSteady" => DnsSteady!NeverGuesses

\* What is shown of the engine and of the route is so, and what the VPN does
\* by itself follows the policy.
PolicyTellsTheTruth ==
    \* A green indicator is the answer the probe of this session got from the
    \* engine that runs (StartupHealth).
    /\ [](scenario = "policyFaults" => PolicyFaults!GreenIsCurrent)
    \* A session that a rollback starts under the profile of the failure is
    \* not on the engine that failed (monitorStartupHealth).
    /\ [](scenario = "policyFaults" => PolicyFaults!RollbackLeavesCandidate)
    \* A session that is up and has its evidence shows the engine it runs on,
    \* however the decision changes while it starts.
    /\ [](scenario = "policyGates" => PolicyGates!ConnectedIsActual)
    \* Once each process has followed the other it has the group set to the
    \* same member, unless a recovery could not record what it set.
    /\ [](scenario = "routeRecovery" => RouteRecovery!LanesAgree)
    \* The address shown is that of the recorded route: no answer that was
    \* under way over an older one is taken for it
    \* (refresh_exit_location_if_due).
    /\ [](scenario = "exitAddress" => ExitAddress!AddressIsCurrent)
    \* A recovery is recorded only if no transaction was committed since its
    \* round began, and after the cooldown (service_watch_loop).
    /\ [][scenario = "routeRecovery" => RouteRecovery!RecoveryIsDue]_vars
    \* Only an answer or an invalidation takes the place of an address that
    \* is shown.
    /\ [][scenario = "exitAddress" => ExitAddress!FailuresKeepTheAddress]_vars
=============================================================================
