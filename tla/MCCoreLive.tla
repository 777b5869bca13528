----------------------------- MODULE MCCoreLive -----------------------------
(*****************************************************************************)
(*  Instances of the components of Core and of its lane for liveness. The    *)
(* scenario, chosen in the initial state, is the instance that a behaviour   *)
(* is of; the other components stay in their initial states.                 *)
(*****************************************************************************)
EXTENDS Naturals, Sequences

CONSTANTS None, Torn, Unfixed, Failed

VARIABLES
    scenario,  \* the instance that the behaviour is of
    \* ConfigTransaction
    store, born, configStamp, mode, engine, controller, connected, rev, shown,
    tasks, configLock, vpnLock, broken,
    \* ProxySelection
    pending, op, done, clean, tunnel, groups, saved, frame, fresh, vpn, best,
    revision, other, serving, selLeft,
    \* LogRecording
    marker, logClock, file, archive, rec, run, step, logUi, captured, dropped,
    logLeft,
    \* PlatformLane
    slot, next, published, lock, mem, job, laneClock, laneStamp, version,
    laneFrames, reader, seen, applied, laneCounts,
    \* ChangeNotification
    notifyUi, backlog, made, peer, boot, sub, toUi, toPeer, notifyFrames, read,
    told, notifyCounts

configVars == <<store, born, configStamp, mode, engine, controller, connected,
                rev, shown, tasks, configLock, vpnLock, broken>>
selVars == <<pending, op, done, clean, tunnel, groups, saved, frame, fresh,
             vpn, best, revision, other, serving, selLeft>>
logVars == <<marker, logClock, file, archive, rec, run, step, logUi, captured,
             dropped, logLeft>>
laneVars == <<slot, next, published, lock, mem, job, laneClock, laneStamp,
              version, laneFrames, reader, seen, applied, laneCounts>>
notifyVars == <<notifyUi, backlog, made, peer, boot, sub, toUi, toPeer,
                notifyFrames, read, told, notifyCounts>>

vars == <<scenario, configVars, selVars, logVars, laneVars, notifyVars>>

-----------------------------------------------------------------------------

\* Two callers and the sync loop; reloads fail.
ConfigLive == INSTANCE ConfigTransaction WITH
    Tasks <- {"t1", "t2", "loop"}, SyncLoop <- "loop", Profiles <- {"a", "b"},
    Kinds <- {"activate", "vpnConfig", "startVpn"},
    Faults <- {"load", "vpnIo", "delayTest"}, MaxOps <- 2, stamp <- configStamp

\* Controls may fail to be written, another transaction runs.
SelectionLive == INSTANCE ProxySelection WITH
    Proxies <- {"a", "b"}, FrameFails <- TRUE, SyncFails <- FALSE,
    MaxClicks <- 2, MaxOthers <- 1, left <- selLeft

\* Every control is written.
SelectionVpn == INSTANCE ProxySelection WITH
    Proxies <- {"a", "b"}, FrameFails <- FALSE, SyncFails <- FALSE,
    MaxClicks <- 2, MaxOthers <- 0, left <- selLeft

\* A write fails and a process dies.
LogLive == INSTANCE LogRecording WITH
    Procs <- {"ui"}, Loggers <- {"ui"}, MaxMemory <- 1, MaxPending <- 2,
    MaxCaptures <- 2, MaxPushes <- 0, MaxToggles <- 2, MaxDeletes <- 0,
    MaxClears <- 0, MaxFaults <- 1, MaxRestarts <- 1, clock <- logClock,
    ui <- logUi, left <- logLeft

\* Three publications.
LaneLive == INSTANCE PlatformLane WITH
    Publishers <- {"state", "control"}, Locked <- {"state", "control"},
    BigFrames <- {}, MaxPublications <- 3, MaxAcks <- 0, MaxRebinds <- 0,
    MaxClockBack <- 0, clock <- laneClock, stamp <- laneStamp,
    frames <- laneFrames, counts <- laneCounts

\* Two frames of each side and a cancelled wait.
NotifyCancel == INSTANCE ChangeNotification WITH
    MaxFrames <- 2, MaxAcks <- 0, MaxDeaths <- 0, MaxCancels <- 1,
    ui <- notifyUi, frames <- notifyFrames, counts <- notifyCounts

-----------------------------------------------------------------------------
Scenarios == {"configLive", "selectionLive", "selectionVpn", "logLive",
              "laneLive", "notifyCancel"}

\* What the components assume of their constants holds in every instance.
ASSUME SuiteAssumption == ConfigLive!ConstantsOK /\
    SelectionLive!ConstantsOK /\ SelectionVpn!ConstantsOK /\
    LogLive!ConstantsOK /\ LaneLive!ConstantsOK /\ NotifyCancel!ConstantsOK

ConfigInit ==
    /\ ConfigLive!Init
    /\ (scenario = "configLive") \/ (store.contents = [p \in {"a", "b"} |-> 0])
SelInit ==
    /\ \/ scenario = "selectionVpn" /\ SelectionVpn!Init
       \/ ~(scenario = "selectionVpn") /\ SelectionLive!Init
    /\ (scenario \in {"selectionLive", "selectionVpn"}) \/ (best = "a")
LogInit ==
    /\ LogLive!Init
LaneInit ==
    /\ LaneLive!Init
NotifyInit ==
    /\ NotifyCancel!Init

Init ==
    /\ scenario \in Scenarios
    /\ ConfigInit /\ SelInit /\ LogInit /\ LaneInit /\ NotifyInit

ConfigNext ==
    /\ scenario = "configLive"
    /\ UNCHANGED <<scenario, selVars, logVars, laneVars, notifyVars>>
    /\ ConfigLive!Next
SelNext ==
    /\ scenario \in {"selectionLive", "selectionVpn"}
    /\ UNCHANGED <<scenario, configVars, logVars, laneVars, notifyVars>>
    /\ \/ scenario = "selectionLive" /\ SelectionLive!Next
       \/ scenario = "selectionVpn" /\ SelectionVpn!Next
LogNext ==
    /\ scenario = "logLive"
    /\ UNCHANGED <<scenario, configVars, selVars, laneVars, notifyVars>>
    /\ LogLive!Next
LaneNext ==
    /\ scenario = "laneLive"
    /\ UNCHANGED <<scenario, configVars, selVars, logVars, notifyVars>>
    /\ LaneLive!Next
NotifyNext ==
    /\ scenario = "notifyCancel"
    /\ UNCHANGED <<scenario, configVars, selVars, logVars, laneVars>>
    /\ NotifyCancel!Next

Next == ConfigNext \/ SelNext \/ LogNext \/ LaneNext \/ NotifyNext

Spec == Init /\ [][Next]_vars

\* The fairness of each component, numbered as the component numbers it.
ConfigFair(n) ==
    /\ scenario = "configLive"
    /\ UNCHANGED <<scenario, selVars, logVars, laneVars, notifyVars>>
    /\ ConfigLive!Fair(n)
SelFair(n) ==
    /\ scenario \in {"selectionLive", "selectionVpn"}
    /\ UNCHANGED <<scenario, configVars, logVars, laneVars, notifyVars>>
    /\ \/ scenario = "selectionLive" /\ SelectionLive!Fair(n)
       \/ scenario = "selectionVpn" /\ SelectionVpn!Fair(n)
LogFair(n) ==
    /\ scenario = "logLive"
    /\ UNCHANGED <<scenario, configVars, selVars, laneVars, notifyVars>>
    /\ LogLive!Fair(n)
LaneFair(n) ==
    /\ scenario = "laneLive"
    /\ UNCHANGED <<scenario, configVars, selVars, logVars, notifyVars>>
    /\ LaneLive!Fair(n)
NotifyFair(n) ==
    /\ scenario = "notifyCancel"
    /\ UNCHANGED <<scenario, configVars, selVars, logVars, laneVars>>
    /\ NotifyCancel!Fair(n)

Fair(n) == ConfigFair(n) \/ SelFair(n) \/ LogFair(n) \/ LaneFair(n) \/
    NotifyFair(n)

ConfigFairStrongly ==
    /\ scenario = "configLive"
    /\ UNCHANGED <<scenario, selVars, logVars, laneVars, notifyVars>>
    /\ ConfigLive!FairStrongly

FairStrongly == ConfigFairStrongly

FairSpec == /\ Spec
            /\ (\A n \in 1..4 : WF_vars(Fair(n)))
            /\ SF_vars(FairStrongly)

-----------------------------------------------------------------------------

\* What was begun in Core ends.
CoreOperationsEnd ==
    \* Every operation ends: transactions, synchronisation and VPN start take
    \* the two locks in one order and release them on every path.
    /\ ConfigLive!OperationsEnd
    \* A choice does not stay pending when the controller does not answer
    \* (select_proxy_via_controller).
    /\ SelectionLive!PendingEnds
    \* A cancelled wait of the subscription returns
    \* (stopPlatformSubscription).
    /\ NotifyCancel!CancelReturns

\* What was left behind by a failure or a delay is caught up with.
CoreCatchesUp ==
    \* While the VPN runs, a controller that a failed reload left down comes
    \* back (controller_sync_loop).
    /\ ConfigLive!ControllerComesBack
    \* After a choice that failed half way, what is shown and saved comes to
    \* be what the tunnel is set to (controller_sync_loop).
    /\ SelectionLive!HalfDoneIsAdopted
    \* A control that is written is what the group of the VPN comes to use,
    \* unless another is written (apply_platform_proxy_selections).
    /\ SelectionVpn!ControlReachesVpn
    \* What is still to be written is written while recording stays on,
    \* though writes fail (RuntimeLogBuffer::sync).
    /\ LogLive!PendingIsArchived
    \* The reader of the lane ends up with the newest state that was
    \* published.
    /\ LaneLive!NewestStateIsApplied
=============================================================================
