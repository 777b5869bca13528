---------------------------- MODULE MCVpnProofs -----------------------------
(***************************************************************************)
(* What the suite MCVpn checks of the lanes, the change notifications, the *)
(* native session, the external engines and the UDP flows, proved for      *)
(* every value of Bounds. Each instance of the suite is an instance of     *)
(* VpnComponentProofs, with equal Init and Next; a behaviour never leaves  *)
(* its scenario, so that the theorems about the component hold of it.      *)
(***************************************************************************)
EXTENDS MCVpn, TLAPS

(* A step of the suite is one of the instance that the scenario names, or  *)
(* leaves the variables of that instance unchanged.                        *)
LEMMA SuiteSteps ==
  ASSUME [Next]_vars
  PROVE  /\ scenario' = scenario
         /\ scenario = "laneUi" => LaneUi!Next \/ UNCHANGED laneVars
         /\ scenario = "laneCrash" => LaneCrash!Next \/ UNCHANGED laneVars
         /\ scenario = "laneWriters" => LaneWriters!Next \/ UNCHANGED laneVars
         /\ scenario = "laneAck" => LaneAck!Next \/ UNCHANGED laneVars
         /\ scenario = "notifyWake" => NotifyWake!Next \/ UNCHANGED notifyVars
         /\ scenario = "notifyOwner" => NotifyOwner!Next \/ UNCHANGED notifyVars
         /\ scenario = "tunFaults" => TunFaults!Next \/ UNCHANGED tunVars
         /\ scenario = "tunListeners" => TunListeners!Next \/ UNCHANGED tunVars
         /\ scenario = "flowsRace" => FlowsRace!Next \/ UNCHANGED flowVars
         /\ scenario = "flowsRoutes" => FlowsRoutes!Next \/ UNCHANGED flowVars
         /\ scenario = "engineFaults" => EngineFaults!Next \/ UNCHANGED engineVars
         /\ scenario = "engineSingBox" => EngineSingBox!Next \/ UNCHANGED engineVars
  BY DEF Next, vars, LaneNext, NotifyNext, TunNext, EngineNext, FlowNext, DnsNext,
         PolicyNext, WatchNext, ExitNext

(* Instances of the proofs: each binds a lane, a notification, a session,  *)
(* an engine and a flow map of the suite.                                  *)
First == INSTANCE VpnComponentProofs WITH
    Publishers <- {"state", "control"}, Locked <- {"state", "control"},
    BigFrames <- {}, MaxPublications <- Bounds.laneUi.MaxPublications,
    MaxLaneAcks <- 0, MaxRebinds <- 0,
    MaxClockBack <- Bounds.laneUi.MaxClockBack,
    MaxFrames <- Bounds.notifyWake.MaxFrames, MaxAcks <- 0, MaxDeaths <- 0,
    MaxCancels <- Bounds.notifyWake.MaxCancels,
    Attempts <- Bounds.tunFaults.Attempts,
    MaxSyncs <- Bounds.tunFaults.MaxSyncs, Lwip <- FALSE, PortTaken <- TRUE,
    PersistFails <- TRUE, Keys <- {"k1"},
    MaxDatagrams <- Bounds.flowsRace.MaxDatagrams,
    MaxStreams <- Bounds.flowsRace.MaxStreams,
    MaxRoutes <- Bounds.flowsRace.MaxRoutes,
    MaxSweeps <- Bounds.flowsRace.MaxSweeps, Engine <- "mihomo",
    Fails <- TRUE, EngineAttempts <- Bounds.engineFaults.Attempts,
    Modes <- {m1}, Sels <- {s1, s2}, MaxEdits <- Bounds.engineFaults.MaxEdits,
    MaxHandovers <- Bounds.engineFaults.MaxHandovers, StartEdits <- TRUE,
    EarlyHandover <- TRUE, SlowProbe <- TRUE

(* The instance LaneUi of the lane (read_lane, publish_state) takes the    *)
(* steps of the component whose proofs are instantiated.                   *)
LEMMA LaneUiMoves == LaneUi!Next => First!Lane!Next
  <1>1. ASSUME NEW x PROVE LaneUi!Update(x) => First!Lane!Update(x)
    BY DEF First!Lane!Update, LaneUi!Update, First!Lane!NextStamp,
           LaneUi!NextStamp, First!Lane!Idle, LaneUi!Idle, First!Lane!Max,
           LaneUi!Max, First!Lane!Empty, LaneUi!Empty, First!Lane!NoState,
           LaneUi!NoState
  <1>2. LaneUi!AttachAck => First!Lane!AttachAck
    BY DEF First!Lane!AttachAck, LaneUi!AttachAck, First!Lane!Idle,
           LaneUi!Idle, First!Lane!LatestGeneration, LaneUi!LatestGeneration,
           First!Lane!Empty, LaneUi!Empty, First!Lane!Max, LaneUi!Max,
           First!Lane!Slots, LaneUi!Slots, First!Lane!Valid, LaneUi!Valid,
           First!Lane!NoState, LaneUi!NoState, First!Lane!SlotCount,
           LaneUi!SlotCount
  <1>3. ASSUME NEW x PROVE LaneUi!Number(x) => First!Lane!Number(x)
    BY DEF First!Lane!Number, LaneUi!Number, First!Lane!Binding,
           LaneUi!Binding, First!Lane!Idle, LaneUi!Idle, First!Lane!Unlocked,
           LaneUi!Unlocked, First!Lane!Empty, LaneUi!Empty,
           First!Lane!NoState, LaneUi!NoState
  <1>4. ASSUME NEW x PROVE LaneUi!BodyFirst(x) => First!Lane!BodyFirst(x)
    BY DEF First!Lane!BodyFirst, LaneUi!BodyFirst, First!Lane!EnterMemory,
           LaneUi!EnterMemory, First!Lane!SlotOf, LaneUi!SlotOf,
           First!Lane!Binding, LaneUi!Binding, First!Lane!SlotCount,
           LaneUi!SlotCount
  <1>5. ASSUME NEW x PROVE LaneUi!BodyRest(x) => First!Lane!BodyRest(x)
    BY DEF First!Lane!BodyRest, LaneUi!BodyRest, First!Lane!LeaveMemory,
           LaneUi!LeaveMemory, First!Lane!SlotOf, LaneUi!SlotOf,
           First!Lane!Binding, LaneUi!Binding, First!Lane!SlotCount,
           LaneUi!SlotCount
  <1>6. ASSUME NEW x PROVE LaneUi!HeaderFirst(x) => First!Lane!HeaderFirst(x)
    BY DEF First!Lane!HeaderFirst, LaneUi!HeaderFirst, First!Lane!EnterMemory,
           LaneUi!EnterMemory, First!Lane!SlotOf, LaneUi!SlotOf,
           First!Lane!Binding, LaneUi!Binding, First!Lane!SlotCount,
           LaneUi!SlotCount
  <1>7. ASSUME NEW x PROVE LaneUi!HeaderRest(x) => First!Lane!HeaderRest(x)
    BY DEF First!Lane!HeaderRest, LaneUi!HeaderRest, First!Lane!LeaveMemory,
           LaneUi!LeaveMemory, First!Lane!SlotOf, LaneUi!SlotOf,
           First!Lane!Idle, LaneUi!Idle, First!Lane!Unlocked, LaneUi!Unlocked,
           First!Lane!Binding, LaneUi!Binding, First!Lane!SlotCount,
           LaneUi!SlotCount, First!Lane!Empty, LaneUi!Empty,
           First!Lane!NoState, LaneUi!NoState
  <1>8. LaneUi!Rebind => First!Lane!Rebind
    BY DEF First!Lane!Rebind, LaneUi!Rebind, First!Lane!Threads,
           LaneUi!Threads, First!Lane!Idle, LaneUi!Idle, First!Lane!Empty,
           LaneUi!Empty, First!Lane!LatestGeneration, LaneUi!LatestGeneration,
           First!Lane!NoState, LaneUi!NoState, First!Lane!Max, LaneUi!Max,
           First!Lane!Slots, LaneUi!Slots, First!Lane!Valid, LaneUi!Valid,
           First!Lane!SlotCount, LaneUi!SlotCount
  <1>9. LaneUi!SetClockBack => First!Lane!SetClockBack
    BY DEF First!Lane!SetClockBack, LaneUi!SetClockBack
  <1>10. LaneUi!StartRead => First!Lane!StartRead
    BY DEF First!Lane!StartRead, LaneUi!StartRead, First!Lane!Resting,
           LaneUi!Resting, First!Lane!LatestGeneration,
           LaneUi!LatestGeneration, First!Lane!Cardinality,
           LaneUi!Cardinality, First!Lane!Writing, LaneUi!Writing,
           First!Lane!Unread, LaneUi!Unread, First!Lane!Empty, LaneUi!Empty,
           First!Lane!Max, LaneUi!Max, First!Lane!Slots, LaneUi!Slots,
           First!Lane!Valid, LaneUi!Valid, First!Lane!Threads, LaneUi!Threads,
           First!Lane!NoState, LaneUi!NoState, First!Lane!SlotCount,
           LaneUi!SlotCount
  <1>11. LaneUi!ReadHeader => First!Lane!ReadHeader
    BY DEF First!Lane!ReadHeader, LaneUi!ReadHeader, First!Lane!Reading,
           LaneUi!Reading, First!Lane!Valid, LaneUi!Valid, First!Lane!Retry,
           LaneUi!Retry, First!Lane!Unread, LaneUi!Unread, First!Lane!Slots,
           LaneUi!Slots, First!Lane!Tries, LaneUi!Tries, First!Lane!NextSlot,
           LaneUi!NextSlot, First!Lane!SlotCount, LaneUi!SlotCount
  <1>12. LaneUi!ReadBody => First!Lane!ReadBody
    BY DEF First!Lane!ReadBody, LaneUi!ReadBody, First!Lane!Reading,
           LaneUi!Reading, First!Lane!Unread, LaneUi!Unread, First!Lane!Slots,
           LaneUi!Slots, First!Lane!SlotCount, LaneUi!SlotCount
  <1>13. LaneUi!ReadAgain => First!Lane!ReadAgain
    BY DEF First!Lane!ReadAgain, LaneUi!ReadAgain, First!Lane!Reading,
           LaneUi!Reading, First!Lane!ChecksumHolds, LaneUi!ChecksumHolds,
           First!Lane!NextSlot, LaneUi!NextSlot, First!Lane!Retry,
           LaneUi!Retry, First!Lane!Unread, LaneUi!Unread, First!Lane!Slots,
           LaneUi!Slots, First!Lane!Tries, LaneUi!Tries, First!Lane!SlotCount,
           LaneUi!SlotCount
  <1>14. LaneUi!FinishRead => First!Lane!FinishRead
    BY DEF First!Lane!FinishRead, LaneUi!FinishRead, First!Lane!Reading,
           LaneUi!Reading, First!Lane!Resting, LaneUi!Resting,
           First!Lane!Unread, LaneUi!Unread, First!Lane!Slots, LaneUi!Slots,
           First!Lane!Empty, LaneUi!Empty, First!Lane!SlotCount,
           LaneUi!SlotCount, First!Lane!NoState, LaneUi!NoState
  <1> QED
    BY <1>1, <1>2, <1>3, <1>4, <1>5, <1>6, <1>7, <1>8, <1>9, <1>10, <1>11,
       <1>12, <1>13, <1>14 DEF First!Lane!Next, LaneUi!Next,
       First!Lane!Threads, LaneUi!Threads

(* The lane the UI reads, bound once, two publishers under one lock: whole *)
(* frames, regular reads (read_lane, publish_state).                       *)
LEMMA LaneUiRuns ==
  Spec => [](scenario = "laneUi" =>
                /\ LaneUi!NoTornFrame
                /\ LaneUi!ReadIsRegular
                /\ LaneUi!LaneIsCurrent)
  <1>1. First!Lane!ConstantsOK
    BY SuiteAssumption DEF First!Lane!ConstantsOK, LaneUi!ConstantsOK,
           First!Lane!Threads, LaneUi!Threads, First!Lane!Headers,
           LaneUi!Headers, First!Lane!Frames, LaneUi!Frames,
           First!Lane!Envelopes, LaneUi!Envelopes
  <1>2. First!UiLane
    BY DEF First!UiLane
  <1>3. Init /\ scenario = "laneUi" => First!Lane!Init
    BY DEF Init, LaneInit, First!Lane!Init, LaneUi!Init, First!Lane!Slots,
           LaneUi!Slots, First!Lane!Empty, LaneUi!Empty, First!Lane!Threads,
           LaneUi!Threads, First!Lane!Idle, LaneUi!Idle, First!Lane!Resting,
           LaneUi!Resting, First!Lane!NoState, LaneUi!NoState,
           First!Lane!SlotCount, LaneUi!SlotCount
  <1>4. LaneUi!Next => First!Lane!Next
    BY LaneUiMoves
  <1>5. [Next]_vars => /\ scenario = "laneUi" => [First!Lane!Next]_(First!Lane!vars)
                       /\ (scenario = "laneUi") <=> (scenario = "laneUi")'
    BY <1>4, SuiteSteps DEF laneVars, First!Lane!vars
  <1>6. /\ First!Lane!NoTornFrame => LaneUi!NoTornFrame
        /\ First!Lane!ReadIsRegular => LaneUi!ReadIsRegular
        /\ First!Lane!LaneIsCurrent => LaneUi!LaneIsCurrent
    BY DEF First!Lane!NoTornFrame, LaneUi!NoTornFrame,
           First!Lane!ReadIsRegular, LaneUi!ReadIsRegular,
           First!Lane!LaneIsCurrent, LaneUi!LaneIsCurrent, First!Lane!Quiet,
           LaneUi!Quiet, First!Lane!LatestGeneration, LaneUi!LatestGeneration,
           First!Lane!Frame, LaneUi!Frame, First!Lane!Threads, LaneUi!Threads,
           First!Lane!Idle, LaneUi!Idle, First!Lane!Max, LaneUi!Max,
           First!Lane!Slots, LaneUi!Slots, First!Lane!Valid, LaneUi!Valid,
           First!Lane!Empty, LaneUi!Empty, First!Lane!SlotCount,
           LaneUi!SlotCount, First!Lane!NoState, LaneUi!NoState
  <1>7. First!Lane!Spec => /\ []First!Lane!NoTornFrame
                           /\ []First!Lane!ReadIsRegular
                           /\ []First!Lane!LaneIsCurrent
    BY <1>1, <1>2, First!FramesAreWhole, First!UiLaneIsRegular,
       First!UiLaneIsCurrent
  <1> QED
    BY <1>3, <1>5, <1>6, <1>7, PTL DEF Spec, First!Lane!Spec

(* The instance NotifyWake of the change notification                      *)
(* (wait_for_change_event) takes the steps of the component whose proofs   *)
(* are instantiated.                                                       *)
LEMMA NotifyWakeMoves == NotifyWake!Next => First!Notify!Next
  BY DEF First!Notify!Next, NotifyWake!Next, First!Notify!UiPark,
           NotifyWake!UiPark, First!Notify!UiWake, NotifyWake!UiWake,
           First!Notify!UiSync, NotifyWake!UiSync, First!Notify!UiPublish,
           NotifyWake!UiPublish, First!Notify!UiNotify, NotifyWake!UiNotify,
           First!Notify!UiSend, NotifyWake!UiSend, First!Notify!UiDies,
           NotifyWake!UiDies, First!Notify!Bind, NotifyWake!Bind,
           First!Notify!Tick, NotifyWake!Tick, First!Notify!SubPark,
           NotifyWake!SubPark, First!Notify!SubWake, NotifyWake!SubWake,
           First!Notify!CancelWait, NotifyWake!CancelWait, First!Notify!Dies,
           NotifyWake!Dies, First!Notify!Peers, NotifyWake!Peers,
           First!Notify!Publish, NotifyWake!Publish, First!Notify!Notify,
           NotifyWake!Notify, First!Notify!Send, NotifyWake!Send,
           First!Notify!Return, NotifyWake!Return, First!Notify!Accept,
           NotifyWake!Accept, First!Notify!UiReady, NotifyWake!UiReady,
           First!Notify!PeerOpen, NotifyWake!PeerOpen, First!Notify!Ended,
           NotifyWake!Ended, First!Notify!Connect, NotifyWake!Connect,
           First!Notify!SubReady, NotifyWake!SubReady, First!Notify!UiOpen,
           NotifyWake!UiOpen, First!Notify!Last, NotifyWake!Last,
           First!Notify!Conns, NotifyWake!Conns, First!Notify!Range,
           NotifyWake!Range

(* One binding: a pump that sleeps is woken by what is published           *)
(* (wait_for_change_event).                                                *)
LEMMA NotifyWakeRuns ==
  Spec => [](scenario = "notifyWake" =>
                /\ NotifyWake!PumpWillWake
                /\ NotifyWake!SubscriptionLives)
  <1>1. First!Notify!ConstantsOK
    BY SuiteAssumption DEF First!Notify!ConstantsOK, NotifyWake!ConstantsOK
  <1>2. First!OneBinding /\ First!OneExtension
    BY DEF First!OneBinding, First!OneExtension
  <1>3. Init /\ scenario = "notifyWake" => First!Notify!Init
    BY DEF Init, NotifyInit, First!Notify!Init, NotifyWake!Init,
           First!Notify!Peers, NotifyWake!Peers
  <1>4. NotifyWake!Next => First!Notify!Next
    BY NotifyWakeMoves
  <1>5. [Next]_vars => /\ scenario = "notifyWake" => [First!Notify!Next]_(First!Notify!vars)
                       /\ (scenario = "notifyWake") <=> (scenario = "notifyWake")'
    BY <1>4, SuiteSteps DEF notifyVars, First!Notify!vars
  <1>6. /\ First!Notify!PumpWillWake => NotifyWake!PumpWillWake
        /\ First!Notify!SubscriptionLives => NotifyWake!SubscriptionLives
    BY DEF First!Notify!PumpWillWake, NotifyWake!PumpWillWake,
           First!Notify!SubscriptionLives, NotifyWake!SubscriptionLives,
           First!Notify!UiReady, NotifyWake!UiReady, First!Notify!PeerOpen,
           NotifyWake!PeerOpen, First!Notify!Peers, NotifyWake!Peers
  <1>7. First!Notify!Spec => /\ []First!Notify!PumpWillWake
                             /\ []First!Notify!SubscriptionLives
    BY <1>1, <1>2, First!PumpWakes, First!SubscriptionStays
  <1> QED
    BY <1>3, <1>5, <1>6, <1>7, PTL DEF Spec, First!Notify!Spec

(* The instance TunFaults of the native session (start_vpn,                *)
(* stop_vpn_inner) takes the steps of the component whose proofs are       *)
(* instantiated.                                                           *)
LEMMA TunFaultsMoves == TunFaults!Next => First!Tun!Next
  <1>1. TunFaults!WorkerNext => First!Tun!WorkerNext
    BY DEF First!Tun!WorkerNext, TunFaults!WorkerNext, First!Tun!Gens,
           TunFaults!Gens, First!Tun!WorkerEnters, TunFaults!WorkerEnters,
           First!Tun!WorkerEnds, TunFaults!WorkerEnds, First!Tun!WorkerCloses,
           TunFaults!WorkerCloses, First!Tun!PublishTaskExit,
           TunFaults!PublishTaskExit, First!Tun!WorkerGone,
           TunFaults!WorkerGone, First!Tun!MaxGen, TunFaults!MaxGen,
           First!Tun!Using, TunFaults!Using, First!Tun!Goes, TunFaults!Goes,
           First!Tun!WorkerOnly, TunFaults!WorkerOnly, First!Tun!Running,
           TunFaults!Running, First!Tun!Failed, TunFaults!Failed
  <1>2. TunFaults!OpSteps => First!Tun!OpSteps
    BY DEF First!Tun!OpSteps, TunFaults!OpSteps, First!Tun!Halt,
           TunFaults!Halt, First!Tun!Join, TunFaults!Join, First!Tun!Spawn,
           TunFaults!Spawn, First!Tun!Prepare, TunFaults!Prepare,
           First!Tun!StartRefused, TunFaults!StartRefused,
           First!Tun!StartProxy, TunFaults!StartProxy,
           First!Tun!CheckAfterProxy, TunFaults!CheckAfterProxy,
           First!Tun!RestartMixedListener, TunFaults!RestartMixedListener,
           First!Tun!CheckAlive, TunFaults!CheckAlive, First!Tun!Commit,
           TunFaults!Commit, First!Tun!DropListeners, TunFaults!DropListeners,
           First!Tun!Fail, TunFaults!Fail, First!Tun!StopReturns,
           TunFaults!StopReturns, First!Tun!SyncRefused,
           TunFaults!SyncRefused, First!Tun!listeners, TunFaults!listeners,
           First!Tun!OpOnly, TunFaults!OpOnly, First!Tun!Stopped,
           TunFaults!Stopped, First!Tun!To, TunFaults!To, First!Tun!workers,
           TunFaults!workers, First!Tun!Running, TunFaults!Running,
           First!Tun!Goes, TunFaults!Goes, First!Tun!Free, TunFaults!Free,
           First!Tun!Active, TunFaults!Active, First!Tun!StopThen,
           TunFaults!StopThen, First!Tun!StartFails, TunFaults!StartFails,
           First!Tun!StartOnly, TunFaults!StartOnly,
           First!Tun!StopMixedListener, TunFaults!StopMixedListener,
           First!Tun!Connected, TunFaults!Connected, First!Tun!Cancelled,
           TunFaults!Cancelled, First!Tun!session, TunFaults!session
  <1>3. TunFaults!WatcherNext => First!Tun!WatcherNext
    BY DEF First!Tun!WatcherNext, TunFaults!WatcherNext, First!Tun!AwaitExit,
           TunFaults!AwaitExit, First!Tun!PublishNativeVpnExit,
           TunFaults!PublishNativeVpnExit, First!Tun!session,
           TunFaults!session, First!Tun!workers, TunFaults!workers,
           First!Tun!listeners, TunFaults!listeners, First!Tun!Free,
           TunFaults!Free, First!Tun!Failed, TunFaults!Failed,
           First!Tun!StopMixedListener, TunFaults!StopMixedListener,
           First!Tun!Active, TunFaults!Active, First!Tun!Failure,
           TunFaults!Failure
  <1>4. TunFaults!AbilitySteps => First!Tun!AbilitySteps
    BY DEF First!Tun!AbilitySteps, TunFaults!AbilitySteps,
           First!Tun!BoundTick, TunFaults!BoundTick, First!Tun!StartVpn,
           TunFaults!StartVpn, First!Tun!SpawnWatcher, TunFaults!SpawnWatcher,
           First!Tun!StartedTick, TunFaults!StartedTick, First!Tun!StopVpn,
           TunFaults!StopVpn, First!Tun!DestroyConnection,
           TunFaults!DestroyConnection, First!Tun!Lifecycle,
           TunFaults!Lifecycle, First!Tun!Tick, TunFaults!Tick,
           First!Tun!Free, TunFaults!Free, First!Tun!Active, TunFaults!Active,
           First!Tun!listeners, TunFaults!listeners, First!Tun!StartOnly,
           TunFaults!StartOnly, First!Tun!session, TunFaults!session,
           First!Tun!workers, TunFaults!workers, First!Tun!Cancelled,
           TunFaults!Cancelled, First!Tun!Ticked, TunFaults!Ticked,
           First!Tun!OpOnly, TunFaults!OpOnly, First!Tun!Failure,
           TunFaults!Failure
  <1>5. TunFaults!SyncRestarts => First!Tun!SyncRestarts
    BY DEF First!Tun!SyncRestarts, TunFaults!SyncRestarts, First!Tun!Free,
           TunFaults!Free, First!Tun!Running, TunFaults!Running,
           First!Tun!session, TunFaults!session, First!Tun!workers,
           TunFaults!workers, First!Tun!listeners, TunFaults!listeners
  <1>6. TunFaults!Heartbeat => First!Tun!Heartbeat
    BY DEF First!Tun!Heartbeat, TunFaults!Heartbeat, First!Tun!Lifecycle,
           TunFaults!Lifecycle, First!Tun!Tick, TunFaults!Tick,
           First!Tun!Free, TunFaults!Free, First!Tun!Ticked, TunFaults!Ticked,
           First!Tun!session, TunFaults!session, First!Tun!workers,
           TunFaults!workers, First!Tun!listeners, TunFaults!listeners,
           First!Tun!Active, TunFaults!Active, First!Tun!Failure,
           TunFaults!Failure
  <1>7. TunFaults!UiStops => First!Tun!UiStops
    BY DEF First!Tun!UiStops, TunFaults!UiStops, First!Tun!Active,
           TunFaults!Active, First!Tun!Cancelled, TunFaults!Cancelled,
           First!Tun!session, TunFaults!session, First!Tun!workers,
           TunFaults!workers, First!Tun!listeners, TunFaults!listeners
  <1>8. TunFaults!Bind => First!Tun!Bind
    BY DEF First!Tun!Bind, TunFaults!Bind, First!Tun!Bound, TunFaults!Bound,
           First!Tun!session, TunFaults!session, First!Tun!workers,
           TunFaults!workers, First!Tun!listeners, TunFaults!listeners
  <1> QED
    BY <1>1, <1>2, <1>3, <1>4, <1>5, <1>6, <1>7, <1>8 DEF First!Tun!Next,
       TunFaults!Next

(* Attempts in which ports are taken and publishing fails: what an attempt *)
(* leaves is cleaned up (stop_vpn_inner).                                  *)
LEMMA TunFaultsRuns ==
  Spec => [](scenario = "tunFaults" => TunFaults!CleanupIsComplete)
  <1>1. First!Tun!ConstantsOK
    BY SuiteAssumption DEF First!Tun!ConstantsOK, TunFaults!ConstantsOK
  <1>2. Init /\ scenario = "tunFaults" => First!Tun!Init
    BY DEF Init, TunInit, First!Tun!Init, TunFaults!Init, First!Tun!Stopped,
           TunFaults!Stopped, First!Tun!Gens, TunFaults!Gens, First!Tun!Free,
           TunFaults!Free, First!Tun!Bound, TunFaults!Bound, First!Tun!MaxGen,
           TunFaults!MaxGen
  <1>3. TunFaults!Next => First!Tun!Next
    BY TunFaultsMoves
  <1>4. [Next]_vars => /\ scenario = "tunFaults" => [First!Tun!Next]_(First!Tun!vars)
                       /\ (scenario = "tunFaults") <=> (scenario = "tunFaults")'
    BY <1>3, SuiteSteps DEF tunVars, First!Tun!vars
  <1>5. First!Tun!CleanupIsComplete => TunFaults!CleanupIsComplete
    BY DEF First!Tun!CleanupIsComplete, TunFaults!CleanupIsComplete,
           First!Tun!Gens, TunFaults!Gens, First!Tun!MaxGen, TunFaults!MaxGen
  <1>6. First!Tun!Spec => []First!Tun!CleanupIsComplete
    BY <1>1, First!CleanupCompletes
  <1> QED
    BY <1>2, <1>4, <1>5, <1>6, PTL DEF Spec, First!Tun!Spec

(* The instance FlowsRace of the UDP flow map (handle_udp_datagram) takes  *)
(* the steps of the component whose proofs are instantiated.               *)
LEMMA FlowsRaceMoves == FlowsRace!Next => First!Flows!Next
  BY DEF First!Flows!Next, FlowsRace!Next, First!Flows!Accept,
           FlowsRace!Accept, First!Flows!Datagram, FlowsRace!Datagram,
           First!Flows!Tasks, FlowsRace!Tasks, First!Flows!Stream,
           FlowsRace!Stream, First!Flows!UdpTask, FlowsRace!UdpTask,
           First!Flows!Conns, FlowsRace!Conns, First!Flows!Reads,
           FlowsRace!Reads, First!Flows!ReadFails, FlowsRace!ReadFails,
           First!Flows!GoesIdle, FlowsRace!GoesIdle, First!Flows!Sweep,
           FlowsRace!Sweep, First!Flows!RouteChange, FlowsRace!RouteChange,
           First!Flows!ReaderEnds, FlowsRace!ReaderEnds, First!Flows!Teardown,
           FlowsRace!Teardown, First!Flows!Spend, FlowsRace!Spend,
           First!Flows!Spawn, FlowsRace!Spawn, First!Flows!Looks,
           FlowsRace!Looks, First!Flows!Writes, FlowsRace!Writes,
           First!Flows!Resolves, FlowsRace!Resolves, First!Flows!Dials,
           FlowsRace!Dials, First!Flows!Sends, FlowsRace!Sends,
           First!Flows!BackendEnds, FlowsRace!BackendEnds, First!Flows!Aborts,
           FlowsRace!Aborts, First!Flows!Ends, FlowsRace!Ends,
           First!Flows!Track, FlowsRace!Track, First!Flows!Udp, FlowsRace!Udp,
           First!Flows!Running, FlowsRace!Running, First!Flows!Over,
           FlowsRace!Over

(* Datagrams of one flow and sweeps: a session keeps its reader, and no    *)
(* task outlives the worker (handle_udp_datagram).                         *)
LEMMA FlowsRaceRuns ==
  Spec => [](scenario = "flowsRace" =>
                /\ FlowsRace!SessionHasReader
                /\ FlowsRace!FlowsEnd)
  <1>1. First!Flows!ConstantsOK
    BY SuiteAssumption DEF First!Flows!ConstantsOK, FlowsRace!ConstantsOK
  <1>2. Init /\ scenario = "flowsRace" => First!Flows!Init
    BY DEF Init, FlowInit, First!Flows!Init, FlowsRace!Init
  <1>3. FlowsRace!Next => First!Flows!Next
    BY FlowsRaceMoves
  <1>4. [Next]_vars => /\ scenario = "flowsRace" => [First!Flows!Next]_(First!Flows!vars)
                       /\ (scenario = "flowsRace") <=> (scenario = "flowsRace")'
    BY <1>3, SuiteSteps DEF flowVars, First!Flows!vars
  <1>5. /\ First!Flows!SessionHasReader => FlowsRace!SessionHasReader
        /\ First!Flows!FlowsEnd => FlowsRace!FlowsEnd
    BY DEF First!Flows!SessionHasReader, FlowsRace!SessionHasReader,
           First!Flows!FlowsEnd, FlowsRace!FlowsEnd, First!Flows!Tasks,
           FlowsRace!Tasks, First!Flows!Over, FlowsRace!Over
  <1>6. First!Flows!Spec => /\ []First!Flows!SessionHasReader
                            /\ []First!Flows!FlowsEnd
    BY <1>1, First!SessionsAreRead, First!TasksEnd
  <1> QED
    BY <1>2, <1>4, <1>5, <1>6, PTL DEF Spec, First!Flows!Spec

(* The instance EngineFaults of the engine on its TUN (quickSetup,         *)
(* reloadSingBoxConfig) takes the steps of the component whose proofs are  *)
(* instantiated.                                                           *)
LEMMA EngineFaultsMoves == EngineFaults!Next => First!Reload!Next
  <1>1. /\ First!Reload!Down = EngineFaults!Down
        /\ First!Reload!NoSession = EngineFaults!NoSession
        /\ First!Reload!NoCall = EngineFaults!NoCall
        /\ First!Reload!MonitorOff = EngineFaults!MonitorOff
    BY DEF First!Reload!Down, EngineFaults!Down, First!Reload!NoSession,
           EngineFaults!NoSession, First!Reload!NoCall, EngineFaults!NoCall,
           First!Reload!MonitorOff, EngineFaults!MonitorOff
  <1>2. ASSUME NEW x PROVE EngineFaults!Destroy(x) => First!Reload!Destroy(x)
    BY <1>1 DEF First!Reload!Destroy, EngineFaults!Destroy
  <1>3. EngineFaults!UiPublishes => First!Reload!UiPublishes
    BY DEF First!Reload!UiPublishes, EngineFaults!UiPublishes,
           First!Reload!Settled, EngineFaults!Settled, First!Reload!Controls,
           EngineFaults!Controls
  <1>4. EngineFaults!UiStops => First!Reload!UiStops
    BY DEF First!Reload!UiStops, EngineFaults!UiStops
  <1>5. EngineFaults!NetAvailable => First!Reload!NetAvailable
    BY DEF First!Reload!NetAvailable, EngineFaults!NetAvailable,
           First!Reload!Reachable, EngineFaults!Reachable,
           First!Reload!Schedule, EngineFaults!Schedule
  <1>6. EngineFaults!NetLost => First!Reload!NetLost
    BY DEF First!Reload!NetLost, EngineFaults!NetLost, First!Reload!Reachable,
           EngineFaults!Reachable, First!Reload!Schedule,
           EngineFaults!Schedule
  <1>7. EngineFaults!Ability => First!Reload!Ability
    <2>1. EngineFaults!Bind => First!Reload!Bind
      BY DEF First!Reload!Bind, EngineFaults!Bind
    <2>2. EngineFaults!StartNetwork => First!Reload!StartNetwork
      BY <1>2 DEF First!Reload!StartNetwork, EngineFaults!StartNetwork,
             First!Reload!AbilityOnly, EngineFaults!AbilityOnly
    <2>3. EngineFaults!Create => First!Reload!Create
      BY <1>2 DEF First!Reload!Create, EngineFaults!Create,
             First!Reload!AbilityOnly, EngineFaults!AbilityOnly
    <2>4. EngineFaults!StartMihomo => First!Reload!StartMihomo
      BY <1>2 DEF First!Reload!StartMihomo, EngineFaults!StartMihomo,
             First!Reload!PlanReady, EngineFaults!PlanReady,
             First!Reload!AbilityOnly, EngineFaults!AbilityOnly
    <2>5. EngineFaults!MihomoStarted => First!Reload!MihomoStarted
      BY <1>1, <1>2 DEF First!Reload!MihomoStarted,
             EngineFaults!MihomoStarted, First!Reload!StartTun,
             EngineFaults!StartTun, First!Reload!AbilityOnly,
             EngineFaults!AbilityOnly
    <2>6. EngineFaults!StartSingBox => First!Reload!StartSingBox
      BY <1>2 DEF First!Reload!StartSingBox, EngineFaults!StartSingBox,
             First!Reload!PlanReady, EngineFaults!PlanReady,
             First!Reload!AbilityOnly, EngineFaults!AbilityOnly
    <2>7. EngineFaults!Persisted => First!Reload!Persisted
      BY DEF First!Reload!Persisted, EngineFaults!Persisted,
             First!Reload!AbilityOnly, EngineFaults!AbilityOnly
    <2>8. EngineFaults!Heartbeat => First!Reload!Heartbeat
      BY <1>2 DEF First!Reload!Heartbeat, EngineFaults!Heartbeat,
             First!Reload!AbilityOnly, EngineFaults!AbilityOnly
    <2>9. EngineFaults!CleanupEnds => First!Reload!CleanupEnds
      BY DEF First!Reload!CleanupEnds, EngineFaults!CleanupEnds,
             First!Reload!AbilityOnly, EngineFaults!AbilityOnly
    <2> QED
      BY <2>1, <2>2, <2>3, <2>4, <2>5, <2>6, <2>7, <2>8,
         <2>9 DEF First!Reload!Ability, EngineFaults!Ability
  <1>8. EngineFaults!StartTimesOut => First!Reload!StartTimesOut
    BY <1>2 DEF First!Reload!StartTimesOut, EngineFaults!StartTimesOut,
           First!Reload!AbilityOnly, EngineFaults!AbilityOnly
  <1>9. EngineFaults!Reloads => First!Reload!Reloads
    BY <1>1 DEF First!Reload!Reloads, EngineFaults!Reloads,
           First!Reload!SubscriptionWakes, EngineFaults!SubscriptionWakes,
           First!Reload!ReloadRefused, EngineFaults!ReloadRefused,
           First!Reload!ReloadSkips, EngineFaults!ReloadSkips,
           First!Reload!ReloadSingBox, EngineFaults!ReloadSingBox,
           First!Reload!ReloadMihomo, EngineFaults!ReloadMihomo,
           First!Reload!ReloadedMihomo, EngineFaults!ReloadedMihomo,
           First!Reload!QuickSetup, EngineFaults!QuickSetup,
           First!Reload!AbilityOnly, EngineFaults!AbilityOnly,
           First!Reload!Due, EngineFaults!Due, First!Reload!PlanReady,
           EngineFaults!PlanReady, First!Reload!ReloadEnds,
           EngineFaults!ReloadEnds, First!Reload!Wanted, EngineFaults!Wanted,
           First!Reload!Unchanged, EngineFaults!Unchanged,
           First!Reload!Reload, EngineFaults!Reload, First!Reload!PlanKey,
           EngineFaults!PlanKey
  <1>10. EngineFaults!Monitor => First!Reload!Monitor
    BY DEF First!Reload!Monitor, EngineFaults!Monitor,
           First!Reload!MonitorListens, EngineFaults!MonitorListens,
           First!Reload!TimerFires, EngineFaults!TimerFires,
           First!Reload!Refresh, EngineFaults!Refresh,
           First!Reload!MonitorOnly, EngineFaults!MonitorOnly,
           First!Reload!RemoveAt, EngineFaults!RemoveAt
  <1> QED
    BY <1>3, <1>4, <1>5, <1>6, <1>7, <1>8, <1>9, <1>10 DEF First!Reload!Next,
       EngineFaults!Next

(* mihomo, which may refuse a configuration or a TUN: the engine is on the *)
(* TUN of its session (quickSetup).                                        *)
LEMMA EngineFaultsRuns ==
  Spec => [](scenario = "engineFaults" =>
                /\ EngineFaults!TunHasOwner
                /\ EngineFaults!ConnectedIsCarried)
  <1>1. First!Reload!ConstantsOK
    BY SuiteAssumption DEF First!Reload!ConstantsOK, EngineFaults!ConstantsOK
  <1>2. First!KeepsTun
    BY DEF First!KeepsTun
  <1>3. Init /\ scenario = "engineFaults" => First!Reload!Init
    BY DEF Init, EngineInit, First!Reload!Init, EngineFaults!Init,
           First!Reload!Controls, EngineFaults!Controls,
           First!Reload!NoSession, EngineFaults!NoSession,
           First!Reload!NoCall, EngineFaults!NoCall, First!Reload!Down,
           EngineFaults!Down, First!Reload!MonitorOff, EngineFaults!MonitorOff
  <1>4. EngineFaults!Next => First!Reload!Next
    BY EngineFaultsMoves
  <1>5. [Next]_vars => /\ scenario = "engineFaults" => [First!Reload!Next]_(First!Reload!vars)
                       /\ (scenario = "engineFaults") <=> (scenario = "engineFaults")'
    BY <1>4, SuiteSteps DEF engineVars, First!Reload!vars
  <1>6. /\ First!Reload!TunHasOwner => EngineFaults!TunHasOwner
        /\ First!Reload!ConnectedIsCarried => EngineFaults!ConnectedIsCarried
    BY DEF First!Reload!TunHasOwner, EngineFaults!TunHasOwner,
           First!Reload!ConnectedIsCarried, EngineFaults!ConnectedIsCarried
  <1>7. First!Reload!Spec => /\ []First!Reload!TunHasOwner
                             /\ []First!Reload!ConnectedIsCarried
    BY <1>1, <1>2, First!EngineHasOwner, First!SessionIsCarried
  <1> QED
    BY <1>3, <1>5, <1>6, <1>7, PTL DEF Spec, First!Reload!Spec

Second == INSTANCE VpnComponentProofs WITH
    Publishers <- {"state"},
    Locked <- {"state"}, BigFrames <- {},
    MaxPublications <- Bounds.laneCrash.MaxPublications, MaxLaneAcks <- 0,
    MaxRebinds <- Bounds.laneCrash.MaxRebinds,
    MaxClockBack <- Bounds.laneCrash.MaxClockBack,
    MaxFrames <- Bounds.notifyOwner.MaxFrames, MaxAcks <- 0,
    MaxDeaths <- Bounds.notifyOwner.MaxDeaths,
    MaxCancels <- Bounds.notifyOwner.MaxCancels,
    Attempts <- Bounds.tunListeners.Attempts,
    MaxSyncs <- Bounds.tunListeners.MaxSyncs, Lwip <- FALSE,
    PortTaken <- FALSE, PersistFails <- FALSE, Keys <- {"k1"},
    MaxDatagrams <- Bounds.flowsRoutes.MaxDatagrams,
    MaxStreams <- Bounds.flowsRoutes.MaxStreams,
    MaxRoutes <- Bounds.flowsRoutes.MaxRoutes,
    MaxSweeps <- Bounds.flowsRoutes.MaxSweeps, Engine <- "sing-box",
    Fails <- FALSE, EngineAttempts <- Bounds.engineSingBox.Attempts,
    Modes <- {m1}, Sels <- {s1, s2},
    MaxEdits <- Bounds.engineSingBox.MaxEdits,
    MaxHandovers <- Bounds.engineSingBox.MaxHandovers, StartEdits <- TRUE,
    EarlyHandover <- TRUE, SlowProbe <- TRUE

(* The instance LaneCrash of the lane (read_lane, publish_state) takes the *)
(* steps of the component whose proofs are instantiated.                   *)
LEMMA LaneCrashMoves == LaneCrash!Next => Second!Lane!Next
  <1>1. ASSUME NEW x PROVE LaneCrash!Update(x) => Second!Lane!Update(x)
    BY DEF Second!Lane!Update, LaneCrash!Update, Second!Lane!NextStamp,
           LaneCrash!NextStamp, Second!Lane!Idle, LaneCrash!Idle,
           Second!Lane!Max, LaneCrash!Max, Second!Lane!Empty, LaneCrash!Empty,
           Second!Lane!NoState, LaneCrash!NoState
  <1>2. LaneCrash!AttachAck => Second!Lane!AttachAck
    BY DEF Second!Lane!AttachAck, LaneCrash!AttachAck, Second!Lane!Idle,
           LaneCrash!Idle, Second!Lane!LatestGeneration,
           LaneCrash!LatestGeneration, Second!Lane!Empty, LaneCrash!Empty,
           Second!Lane!Max, LaneCrash!Max, Second!Lane!Slots, LaneCrash!Slots,
           Second!Lane!Valid, LaneCrash!Valid, Second!Lane!NoState,
           LaneCrash!NoState, Second!Lane!SlotCount, LaneCrash!SlotCount
  <1>3. ASSUME NEW x PROVE LaneCrash!Number(x) => Second!Lane!Number(x)
    BY DEF Second!Lane!Number, LaneCrash!Number, Second!Lane!Binding,
           LaneCrash!Binding, Second!Lane!Idle, LaneCrash!Idle,
           Second!Lane!Unlocked, LaneCrash!Unlocked, Second!Lane!Empty,
           LaneCrash!Empty, Second!Lane!NoState, LaneCrash!NoState
  <1>4. ASSUME NEW x PROVE LaneCrash!BodyFirst(x) => Second!Lane!BodyFirst(x)
    BY DEF Second!Lane!BodyFirst, LaneCrash!BodyFirst,
           Second!Lane!EnterMemory, LaneCrash!EnterMemory, Second!Lane!SlotOf,
           LaneCrash!SlotOf, Second!Lane!Binding, LaneCrash!Binding,
           Second!Lane!SlotCount, LaneCrash!SlotCount
  <1>5. ASSUME NEW x PROVE LaneCrash!BodyRest(x) => Second!Lane!BodyRest(x)
    BY DEF Second!Lane!BodyRest, LaneCrash!BodyRest, Second!Lane!LeaveMemory,
           LaneCrash!LeaveMemory, Second!Lane!SlotOf, LaneCrash!SlotOf,
           Second!Lane!Binding, LaneCrash!Binding, Second!Lane!SlotCount,
           LaneCrash!SlotCount
  <1>6. ASSUME NEW x PROVE LaneCrash!HeaderFirst(x) => Second!Lane!HeaderFirst(x)
    BY DEF Second!Lane!HeaderFirst, LaneCrash!HeaderFirst,
           Second!Lane!EnterMemory, LaneCrash!EnterMemory, Second!Lane!SlotOf,
           LaneCrash!SlotOf, Second!Lane!Binding, LaneCrash!Binding,
           Second!Lane!SlotCount, LaneCrash!SlotCount
  <1>7. ASSUME NEW x PROVE LaneCrash!HeaderRest(x) => Second!Lane!HeaderRest(x)
    BY DEF Second!Lane!HeaderRest, LaneCrash!HeaderRest,
           Second!Lane!LeaveMemory, LaneCrash!LeaveMemory, Second!Lane!SlotOf,
           LaneCrash!SlotOf, Second!Lane!Idle, LaneCrash!Idle,
           Second!Lane!Unlocked, LaneCrash!Unlocked, Second!Lane!Binding,
           LaneCrash!Binding, Second!Lane!SlotCount, LaneCrash!SlotCount,
           Second!Lane!Empty, LaneCrash!Empty, Second!Lane!NoState,
           LaneCrash!NoState
  <1>8. LaneCrash!Rebind => Second!Lane!Rebind
    BY DEF Second!Lane!Rebind, LaneCrash!Rebind, Second!Lane!Threads,
           LaneCrash!Threads, Second!Lane!Idle, LaneCrash!Idle,
           Second!Lane!Empty, LaneCrash!Empty, Second!Lane!LatestGeneration,
           LaneCrash!LatestGeneration, Second!Lane!NoState, LaneCrash!NoState,
           Second!Lane!Max, LaneCrash!Max, Second!Lane!Slots, LaneCrash!Slots,
           Second!Lane!Valid, LaneCrash!Valid, Second!Lane!SlotCount,
           LaneCrash!SlotCount
  <1>9. LaneCrash!SetClockBack => Second!Lane!SetClockBack
    BY DEF Second!Lane!SetClockBack, LaneCrash!SetClockBack
  <1>10. LaneCrash!StartRead => Second!Lane!StartRead
    BY DEF Second!Lane!StartRead, LaneCrash!StartRead, Second!Lane!Resting,
           LaneCrash!Resting, Second!Lane!LatestGeneration,
           LaneCrash!LatestGeneration, Second!Lane!Cardinality,
           LaneCrash!Cardinality, Second!Lane!Writing, LaneCrash!Writing,
           Second!Lane!Unread, LaneCrash!Unread, Second!Lane!Empty,
           LaneCrash!Empty, Second!Lane!Max, LaneCrash!Max, Second!Lane!Slots,
           LaneCrash!Slots, Second!Lane!Valid, LaneCrash!Valid,
           Second!Lane!Threads, LaneCrash!Threads, Second!Lane!NoState,
           LaneCrash!NoState, Second!Lane!SlotCount, LaneCrash!SlotCount
  <1>11. LaneCrash!ReadHeader => Second!Lane!ReadHeader
    BY DEF Second!Lane!ReadHeader, LaneCrash!ReadHeader, Second!Lane!Reading,
           LaneCrash!Reading, Second!Lane!Valid, LaneCrash!Valid,
           Second!Lane!Retry, LaneCrash!Retry, Second!Lane!Unread,
           LaneCrash!Unread, Second!Lane!Slots, LaneCrash!Slots,
           Second!Lane!Tries, LaneCrash!Tries, Second!Lane!NextSlot,
           LaneCrash!NextSlot, Second!Lane!SlotCount, LaneCrash!SlotCount
  <1>12. LaneCrash!ReadBody => Second!Lane!ReadBody
    BY DEF Second!Lane!ReadBody, LaneCrash!ReadBody, Second!Lane!Reading,
           LaneCrash!Reading, Second!Lane!Unread, LaneCrash!Unread,
           Second!Lane!Slots, LaneCrash!Slots, Second!Lane!SlotCount,
           LaneCrash!SlotCount
  <1>13. LaneCrash!ReadAgain => Second!Lane!ReadAgain
    BY DEF Second!Lane!ReadAgain, LaneCrash!ReadAgain, Second!Lane!Reading,
           LaneCrash!Reading, Second!Lane!ChecksumHolds,
           LaneCrash!ChecksumHolds, Second!Lane!NextSlot, LaneCrash!NextSlot,
           Second!Lane!Retry, LaneCrash!Retry, Second!Lane!Unread,
           LaneCrash!Unread, Second!Lane!Slots, LaneCrash!Slots,
           Second!Lane!Tries, LaneCrash!Tries, Second!Lane!SlotCount,
           LaneCrash!SlotCount
  <1>14. LaneCrash!FinishRead => Second!Lane!FinishRead
    BY DEF Second!Lane!FinishRead, LaneCrash!FinishRead, Second!Lane!Reading,
           LaneCrash!Reading, Second!Lane!Resting, LaneCrash!Resting,
           Second!Lane!Unread, LaneCrash!Unread, Second!Lane!Slots,
           LaneCrash!Slots, Second!Lane!Empty, LaneCrash!Empty,
           Second!Lane!SlotCount, LaneCrash!SlotCount, Second!Lane!NoState,
           LaneCrash!NoState
  <1> QED
    BY <1>1, <1>2, <1>3, <1>4, <1>5, <1>6, <1>7, <1>8, <1>9, <1>10, <1>11,
       <1>12, <1>13, <1>14 DEF Second!Lane!Next, LaneCrash!Next,
       Second!Lane!Threads, LaneCrash!Threads

(* A lane whose process dies and binds again, one publisher: it ends up    *)
(* current (seed_next_generation).                                         *)
LEMMA LaneCrashRuns ==
  Spec => [](scenario = "laneCrash" => LaneCrash!LaneIsCurrent)
  <1>1. Second!Lane!ConstantsOK
    BY SuiteAssumption DEF Second!Lane!ConstantsOK, LaneCrash!ConstantsOK,
           Second!Lane!Threads, LaneCrash!Threads, Second!Lane!Headers,
           LaneCrash!Headers, Second!Lane!Frames, LaneCrash!Frames,
           Second!Lane!Envelopes, LaneCrash!Envelopes
  <1>2. Second!OneWriter
    BY DEF Second!OneWriter
  <1>3. Init /\ scenario = "laneCrash" => Second!Lane!Init
    BY DEF Init, LaneInit, Second!Lane!Init, LaneCrash!Init,
           Second!Lane!Slots, LaneCrash!Slots, Second!Lane!Empty,
           LaneCrash!Empty, Second!Lane!Threads, LaneCrash!Threads,
           Second!Lane!Idle, LaneCrash!Idle, Second!Lane!Resting,
           LaneCrash!Resting, Second!Lane!NoState, LaneCrash!NoState,
           Second!Lane!SlotCount, LaneCrash!SlotCount
  <1>4. LaneCrash!Next => Second!Lane!Next
    BY LaneCrashMoves
  <1>5. [Next]_vars => /\ scenario = "laneCrash" => [Second!Lane!Next]_(Second!Lane!vars)
                       /\ (scenario = "laneCrash") <=> (scenario = "laneCrash")'
    BY <1>4, SuiteSteps DEF laneVars, Second!Lane!vars
  <1>6. Second!Lane!LaneIsCurrent => LaneCrash!LaneIsCurrent
    BY DEF Second!Lane!LaneIsCurrent, LaneCrash!LaneIsCurrent,
           Second!Lane!Quiet, LaneCrash!Quiet, Second!Lane!LatestGeneration,
           LaneCrash!LatestGeneration, Second!Lane!Frame, LaneCrash!Frame,
           Second!Lane!Threads, LaneCrash!Threads, Second!Lane!Idle,
           LaneCrash!Idle, Second!Lane!Max, LaneCrash!Max, Second!Lane!Slots,
           LaneCrash!Slots, Second!Lane!Valid, LaneCrash!Valid,
           Second!Lane!Empty, LaneCrash!Empty, Second!Lane!SlotCount,
           LaneCrash!SlotCount, Second!Lane!NoState, LaneCrash!NoState
  <1>7. Second!Lane!Spec => []Second!Lane!LaneIsCurrent
    BY <1>1, <1>2, Second!ReboundLaneIsCurrent
  <1> QED
    BY <1>3, <1>5, <1>6, <1>7, PTL DEF Spec, Second!Lane!Spec

(* The instance NotifyOwner of the change notification                     *)
(* (wait_for_change_event) takes the steps of the component whose proofs   *)
(* are instantiated.                                                       *)
LEMMA NotifyOwnerMoves == NotifyOwner!Next => Second!Notify!Next
  BY DEF Second!Notify!Next, NotifyOwner!Next, Second!Notify!UiPark,
           NotifyOwner!UiPark, Second!Notify!UiWake, NotifyOwner!UiWake,
           Second!Notify!UiSync, NotifyOwner!UiSync, Second!Notify!UiPublish,
           NotifyOwner!UiPublish, Second!Notify!UiNotify,
           NotifyOwner!UiNotify, Second!Notify!UiSend, NotifyOwner!UiSend,
           Second!Notify!UiDies, NotifyOwner!UiDies, Second!Notify!Bind,
           NotifyOwner!Bind, Second!Notify!Tick, NotifyOwner!Tick,
           Second!Notify!SubPark, NotifyOwner!SubPark, Second!Notify!SubWake,
           NotifyOwner!SubWake, Second!Notify!CancelWait,
           NotifyOwner!CancelWait, Second!Notify!Dies, NotifyOwner!Dies,
           Second!Notify!Peers, NotifyOwner!Peers, Second!Notify!Publish,
           NotifyOwner!Publish, Second!Notify!Notify, NotifyOwner!Notify,
           Second!Notify!Send, NotifyOwner!Send, Second!Notify!Return,
           NotifyOwner!Return, Second!Notify!Accept, NotifyOwner!Accept,
           Second!Notify!UiReady, NotifyOwner!UiReady, Second!Notify!PeerOpen,
           NotifyOwner!PeerOpen, Second!Notify!Ended, NotifyOwner!Ended,
           Second!Notify!Connect, NotifyOwner!Connect, Second!Notify!SubReady,
           NotifyOwner!SubReady, Second!Notify!UiOpen, NotifyOwner!UiOpen,
           Second!Notify!Last, NotifyOwner!Last, Second!Notify!Conns,
           NotifyOwner!Conns, Second!Notify!Range, NotifyOwner!Range

(* The Extension that dies and returns: its owner is woken (notify).       *)
LEMMA NotifyOwnerRuns ==
  Spec => [](scenario = "notifyOwner" => NotifyOwner!OwnerWillWake)
  <1>1. Second!Notify!ConstantsOK
    BY SuiteAssumption DEF Second!Notify!ConstantsOK, NotifyOwner!ConstantsOK
  <1>2. Second!OneBinding
    BY DEF Second!OneBinding
  <1>3. Init /\ scenario = "notifyOwner" => Second!Notify!Init
    BY DEF Init, NotifyInit, Second!Notify!Init, NotifyOwner!Init,
           Second!Notify!Peers, NotifyOwner!Peers
  <1>4. NotifyOwner!Next => Second!Notify!Next
    BY NotifyOwnerMoves
  <1>5. [Next]_vars => /\ scenario = "notifyOwner" => [Second!Notify!Next]_(Second!Notify!vars)
                       /\ (scenario = "notifyOwner") <=> (scenario = "notifyOwner")'
    BY <1>4, SuiteSteps DEF notifyVars, Second!Notify!vars
  <1>6. Second!Notify!OwnerWillWake => NotifyOwner!OwnerWillWake
    BY DEF Second!Notify!OwnerWillWake, NotifyOwner!OwnerWillWake,
           Second!Notify!SubReady, NotifyOwner!SubReady, Second!Notify!UiOpen,
           NotifyOwner!UiOpen, Second!Notify!Range, NotifyOwner!Range
  <1>7. Second!Notify!Spec => []Second!Notify!OwnerWillWake
    BY <1>1, <1>2, Second!OwnerWakes
  <1> QED
    BY <1>3, <1>5, <1>6, <1>7, PTL DEF Spec, Second!Notify!Spec

(* The instance TunListeners of the native session (start_vpn,             *)
(* stop_vpn_inner) takes the steps of the component whose proofs are       *)
(* instantiated.                                                           *)
LEMMA TunListenersMoves == TunListeners!Next => Second!Tun!Next
  <1>1. TunListeners!WorkerNext => Second!Tun!WorkerNext
    BY DEF Second!Tun!WorkerNext, TunListeners!WorkerNext, Second!Tun!Gens,
           TunListeners!Gens, Second!Tun!WorkerEnters,
           TunListeners!WorkerEnters, Second!Tun!WorkerEnds,
           TunListeners!WorkerEnds, Second!Tun!WorkerCloses,
           TunListeners!WorkerCloses, Second!Tun!PublishTaskExit,
           TunListeners!PublishTaskExit, Second!Tun!WorkerGone,
           TunListeners!WorkerGone, Second!Tun!MaxGen, TunListeners!MaxGen,
           Second!Tun!Using, TunListeners!Using, Second!Tun!Goes,
           TunListeners!Goes, Second!Tun!WorkerOnly, TunListeners!WorkerOnly,
           Second!Tun!Running, TunListeners!Running, Second!Tun!Failed,
           TunListeners!Failed
  <1>2. TunListeners!OpSteps => Second!Tun!OpSteps
    BY DEF Second!Tun!OpSteps, TunListeners!OpSteps, Second!Tun!Halt,
           TunListeners!Halt, Second!Tun!Join, TunListeners!Join,
           Second!Tun!Spawn, TunListeners!Spawn, Second!Tun!Prepare,
           TunListeners!Prepare, Second!Tun!StartRefused,
           TunListeners!StartRefused, Second!Tun!StartProxy,
           TunListeners!StartProxy, Second!Tun!CheckAfterProxy,
           TunListeners!CheckAfterProxy, Second!Tun!RestartMixedListener,
           TunListeners!RestartMixedListener, Second!Tun!CheckAlive,
           TunListeners!CheckAlive, Second!Tun!Commit, TunListeners!Commit,
           Second!Tun!DropListeners, TunListeners!DropListeners,
           Second!Tun!Fail, TunListeners!Fail, Second!Tun!StopReturns,
           TunListeners!StopReturns, Second!Tun!SyncRefused,
           TunListeners!SyncRefused, Second!Tun!listeners,
           TunListeners!listeners, Second!Tun!OpOnly, TunListeners!OpOnly,
           Second!Tun!Stopped, TunListeners!Stopped, Second!Tun!To,
           TunListeners!To, Second!Tun!workers, TunListeners!workers,
           Second!Tun!Running, TunListeners!Running, Second!Tun!Goes,
           TunListeners!Goes, Second!Tun!Free, TunListeners!Free,
           Second!Tun!Active, TunListeners!Active, Second!Tun!StopThen,
           TunListeners!StopThen, Second!Tun!StartFails,
           TunListeners!StartFails, Second!Tun!StartOnly,
           TunListeners!StartOnly, Second!Tun!StopMixedListener,
           TunListeners!StopMixedListener, Second!Tun!Connected,
           TunListeners!Connected, Second!Tun!Cancelled,
           TunListeners!Cancelled, Second!Tun!session, TunListeners!session
  <1>3. TunListeners!WatcherNext => Second!Tun!WatcherNext
    BY DEF Second!Tun!WatcherNext, TunListeners!WatcherNext,
           Second!Tun!AwaitExit, TunListeners!AwaitExit,
           Second!Tun!PublishNativeVpnExit, TunListeners!PublishNativeVpnExit,
           Second!Tun!session, TunListeners!session, Second!Tun!workers,
           TunListeners!workers, Second!Tun!listeners, TunListeners!listeners,
           Second!Tun!Free, TunListeners!Free, Second!Tun!Failed,
           TunListeners!Failed, Second!Tun!StopMixedListener,
           TunListeners!StopMixedListener, Second!Tun!Active,
           TunListeners!Active, Second!Tun!Failure, TunListeners!Failure
  <1>4. TunListeners!AbilitySteps => Second!Tun!AbilitySteps
    BY DEF Second!Tun!AbilitySteps, TunListeners!AbilitySteps,
           Second!Tun!BoundTick, TunListeners!BoundTick, Second!Tun!StartVpn,
           TunListeners!StartVpn, Second!Tun!SpawnWatcher,
           TunListeners!SpawnWatcher, Second!Tun!StartedTick,
           TunListeners!StartedTick, Second!Tun!StopVpn, TunListeners!StopVpn,
           Second!Tun!DestroyConnection, TunListeners!DestroyConnection,
           Second!Tun!Lifecycle, TunListeners!Lifecycle, Second!Tun!Tick,
           TunListeners!Tick, Second!Tun!Free, TunListeners!Free,
           Second!Tun!Active, TunListeners!Active, Second!Tun!listeners,
           TunListeners!listeners, Second!Tun!StartOnly,
           TunListeners!StartOnly, Second!Tun!session, TunListeners!session,
           Second!Tun!workers, TunListeners!workers, Second!Tun!Cancelled,
           TunListeners!Cancelled, Second!Tun!Ticked, TunListeners!Ticked,
           Second!Tun!OpOnly, TunListeners!OpOnly, Second!Tun!Failure,
           TunListeners!Failure
  <1>5. TunListeners!SyncRestarts => Second!Tun!SyncRestarts
    BY DEF Second!Tun!SyncRestarts, TunListeners!SyncRestarts,
           Second!Tun!Free, TunListeners!Free, Second!Tun!Running,
           TunListeners!Running, Second!Tun!session, TunListeners!session,
           Second!Tun!workers, TunListeners!workers, Second!Tun!listeners,
           TunListeners!listeners
  <1>6. TunListeners!Heartbeat => Second!Tun!Heartbeat
    BY DEF Second!Tun!Heartbeat, TunListeners!Heartbeat, Second!Tun!Lifecycle,
           TunListeners!Lifecycle, Second!Tun!Tick, TunListeners!Tick,
           Second!Tun!Free, TunListeners!Free, Second!Tun!Ticked,
           TunListeners!Ticked, Second!Tun!session, TunListeners!session,
           Second!Tun!workers, TunListeners!workers, Second!Tun!listeners,
           TunListeners!listeners, Second!Tun!Active, TunListeners!Active,
           Second!Tun!Failure, TunListeners!Failure
  <1>7. TunListeners!UiStops => Second!Tun!UiStops
    BY DEF Second!Tun!UiStops, TunListeners!UiStops, Second!Tun!Active,
           TunListeners!Active, Second!Tun!Cancelled, TunListeners!Cancelled,
           Second!Tun!session, TunListeners!session, Second!Tun!workers,
           TunListeners!workers, Second!Tun!listeners, TunListeners!listeners
  <1>8. TunListeners!Bind => Second!Tun!Bind
    BY DEF Second!Tun!Bind, TunListeners!Bind, Second!Tun!Bound,
           TunListeners!Bound, Second!Tun!session, TunListeners!session,
           Second!Tun!workers, TunListeners!workers, Second!Tun!listeners,
           TunListeners!listeners
  <1> QED
    BY <1>1, <1>2, <1>3, <1>4, <1>5, <1>6, <1>7, <1>8 DEF Second!Tun!Next,
       TunListeners!Next

(* Attempts that replace one another: one worker, and listeners that are   *)
(* served (start_vpn).                                                     *)
LEMMA TunListenersRuns ==
  Spec => [](scenario = "tunListeners" =>
                /\ TunListeners!OneWorker
                /\ TunListeners!ListenersServe)
  <1>1. Second!Tun!ConstantsOK
    BY SuiteAssumption DEF Second!Tun!ConstantsOK, TunListeners!ConstantsOK
  <1>2. Init /\ scenario = "tunListeners" => Second!Tun!Init
    BY DEF Init, TunInit, Second!Tun!Init, TunListeners!Init,
           Second!Tun!Stopped, TunListeners!Stopped, Second!Tun!Gens,
           TunListeners!Gens, Second!Tun!Free, TunListeners!Free,
           Second!Tun!Bound, TunListeners!Bound, Second!Tun!MaxGen,
           TunListeners!MaxGen
  <1>3. TunListeners!Next => Second!Tun!Next
    BY TunListenersMoves
  <1>4. [Next]_vars => /\ scenario = "tunListeners" => [Second!Tun!Next]_(Second!Tun!vars)
                       /\ (scenario = "tunListeners") <=> (scenario = "tunListeners")'
    BY <1>3, SuiteSteps DEF tunVars, Second!Tun!vars
  <1>5. /\ Second!Tun!OneWorker => TunListeners!OneWorker
        /\ Second!Tun!ListenersServe => TunListeners!ListenersServe
    BY DEF Second!Tun!OneWorker, TunListeners!OneWorker,
           Second!Tun!ListenersServe, TunListeners!ListenersServe,
           Second!Tun!Cardinality, TunListeners!Cardinality, Second!Tun!Using,
           TunListeners!Using, Second!Tun!Free, TunListeners!Free,
           Second!Tun!Gens, TunListeners!Gens, Second!Tun!MaxGen,
           TunListeners!MaxGen
  <1>6. Second!Tun!Spec => /\ []Second!Tun!OneWorker
                           /\ []Second!Tun!ListenersServe
    BY <1>1, Second!WorkersExclude, Second!ListenersStay
  <1> QED
    BY <1>2, <1>4, <1>5, <1>6, PTL DEF Spec, Second!Tun!Spec

(* The instance FlowsRoutes of the UDP flow map (handle_udp_datagram)      *)
(* takes the steps of the component whose proofs are instantiated.         *)
LEMMA FlowsRoutesMoves == FlowsRoutes!Next => Second!Flows!Next
  BY DEF Second!Flows!Next, FlowsRoutes!Next, Second!Flows!Accept,
           FlowsRoutes!Accept, Second!Flows!Datagram, FlowsRoutes!Datagram,
           Second!Flows!Tasks, FlowsRoutes!Tasks, Second!Flows!Stream,
           FlowsRoutes!Stream, Second!Flows!UdpTask, FlowsRoutes!UdpTask,
           Second!Flows!Conns, FlowsRoutes!Conns, Second!Flows!Reads,
           FlowsRoutes!Reads, Second!Flows!ReadFails, FlowsRoutes!ReadFails,
           Second!Flows!GoesIdle, FlowsRoutes!GoesIdle, Second!Flows!Sweep,
           FlowsRoutes!Sweep, Second!Flows!RouteChange,
           FlowsRoutes!RouteChange, Second!Flows!ReaderEnds,
           FlowsRoutes!ReaderEnds, Second!Flows!Teardown,
           FlowsRoutes!Teardown, Second!Flows!Spend, FlowsRoutes!Spend,
           Second!Flows!Spawn, FlowsRoutes!Spawn, Second!Flows!Looks,
           FlowsRoutes!Looks, Second!Flows!Writes, FlowsRoutes!Writes,
           Second!Flows!Resolves, FlowsRoutes!Resolves, Second!Flows!Dials,
           FlowsRoutes!Dials, Second!Flows!Sends, FlowsRoutes!Sends,
           Second!Flows!BackendEnds, FlowsRoutes!BackendEnds,
           Second!Flows!Aborts, FlowsRoutes!Aborts, Second!Flows!Ends,
           FlowsRoutes!Ends, Second!Flows!Track, FlowsRoutes!Track,
           Second!Flows!Udp, FlowsRoutes!Udp, Second!Flows!Running,
           FlowsRoutes!Running, Second!Flows!Over, FlowsRoutes!Over

(* The same while the route changes (handle_udp_datagram).                 *)
LEMMA FlowsRoutesRuns ==
  Spec => [](scenario = "flowsRoutes" =>
                /\ FlowsRoutes!SessionHasReader
                /\ FlowsRoutes!FlowsEnd)
  <1>1. Second!Flows!ConstantsOK
    BY SuiteAssumption DEF Second!Flows!ConstantsOK, FlowsRoutes!ConstantsOK
  <1>2. Init /\ scenario = "flowsRoutes" => Second!Flows!Init
    BY DEF Init, FlowInit, Second!Flows!Init, FlowsRoutes!Init
  <1>3. FlowsRoutes!Next => Second!Flows!Next
    BY FlowsRoutesMoves
  <1>4. [Next]_vars => /\ scenario = "flowsRoutes" => [Second!Flows!Next]_(Second!Flows!vars)
                       /\ (scenario = "flowsRoutes") <=> (scenario = "flowsRoutes")'
    BY <1>3, SuiteSteps DEF flowVars, Second!Flows!vars
  <1>5. /\ Second!Flows!SessionHasReader => FlowsRoutes!SessionHasReader
        /\ Second!Flows!FlowsEnd => FlowsRoutes!FlowsEnd
    BY DEF Second!Flows!SessionHasReader, FlowsRoutes!SessionHasReader,
           Second!Flows!FlowsEnd, FlowsRoutes!FlowsEnd, Second!Flows!Tasks,
           FlowsRoutes!Tasks, Second!Flows!Over, FlowsRoutes!Over
  <1>6. Second!Flows!Spec => /\ []Second!Flows!SessionHasReader
                             /\ []Second!Flows!FlowsEnd
    BY <1>1, Second!SessionsAreRead, Second!TasksEnd
  <1> QED
    BY <1>2, <1>4, <1>5, <1>6, PTL DEF Spec, Second!Flows!Spec

(* The instance EngineSingBox of the engine on its TUN (quickSetup,        *)
(* reloadSingBoxConfig) takes the steps of the component whose proofs are  *)
(* instantiated.                                                           *)
LEMMA EngineSingBoxMoves == EngineSingBox!Next => Second!Reload!Next
  <1>1. /\ Second!Reload!Down = EngineSingBox!Down
        /\ Second!Reload!NoSession = EngineSingBox!NoSession
        /\ Second!Reload!NoCall = EngineSingBox!NoCall
        /\ Second!Reload!MonitorOff = EngineSingBox!MonitorOff
    BY DEF Second!Reload!Down, EngineSingBox!Down, Second!Reload!NoSession,
           EngineSingBox!NoSession, Second!Reload!NoCall,
           EngineSingBox!NoCall, Second!Reload!MonitorOff,
           EngineSingBox!MonitorOff
  <1>2. ASSUME NEW x PROVE EngineSingBox!Destroy(x) => Second!Reload!Destroy(x)
    BY <1>1 DEF Second!Reload!Destroy, EngineSingBox!Destroy
  <1>3. EngineSingBox!UiPublishes => Second!Reload!UiPublishes
    BY DEF Second!Reload!UiPublishes, EngineSingBox!UiPublishes,
           Second!Reload!Settled, EngineSingBox!Settled,
           Second!Reload!Controls, EngineSingBox!Controls
  <1>4. EngineSingBox!UiStops => Second!Reload!UiStops
    BY DEF Second!Reload!UiStops, EngineSingBox!UiStops
  <1>5. EngineSingBox!NetAvailable => Second!Reload!NetAvailable
    BY DEF Second!Reload!NetAvailable, EngineSingBox!NetAvailable,
           Second!Reload!Reachable, EngineSingBox!Reachable,
           Second!Reload!Schedule, EngineSingBox!Schedule
  <1>6. EngineSingBox!NetLost => Second!Reload!NetLost
    BY DEF Second!Reload!NetLost, EngineSingBox!NetLost,
           Second!Reload!Reachable, EngineSingBox!Reachable,
           Second!Reload!Schedule, EngineSingBox!Schedule
  <1>7. EngineSingBox!Ability => Second!Reload!Ability
    <2>1. EngineSingBox!Bind => Second!Reload!Bind
      BY DEF Second!Reload!Bind, EngineSingBox!Bind
    <2>2. EngineSingBox!StartNetwork => Second!Reload!StartNetwork
      BY <1>2 DEF Second!Reload!StartNetwork, EngineSingBox!StartNetwork,
             Second!Reload!AbilityOnly, EngineSingBox!AbilityOnly
    <2>3. EngineSingBox!Create => Second!Reload!Create
      BY <1>2 DEF Second!Reload!Create, EngineSingBox!Create,
             Second!Reload!AbilityOnly, EngineSingBox!AbilityOnly
    <2>4. EngineSingBox!StartMihomo => Second!Reload!StartMihomo
      BY <1>2 DEF Second!Reload!StartMihomo, EngineSingBox!StartMihomo,
             Second!Reload!PlanReady, EngineSingBox!PlanReady,
             Second!Reload!AbilityOnly, EngineSingBox!AbilityOnly
    <2>5. EngineSingBox!MihomoStarted => Second!Reload!MihomoStarted
      BY <1>1, <1>2 DEF Second!Reload!MihomoStarted,
             EngineSingBox!MihomoStarted, Second!Reload!StartTun,
             EngineSingBox!StartTun, Second!Reload!AbilityOnly,
             EngineSingBox!AbilityOnly
    <2>6. EngineSingBox!StartSingBox => Second!Reload!StartSingBox
      BY <1>2 DEF Second!Reload!StartSingBox, EngineSingBox!StartSingBox,
             Second!Reload!PlanReady, EngineSingBox!PlanReady,
             Second!Reload!AbilityOnly, EngineSingBox!AbilityOnly
    <2>7. EngineSingBox!Persisted => Second!Reload!Persisted
      BY DEF Second!Reload!Persisted, EngineSingBox!Persisted,
             Second!Reload!AbilityOnly, EngineSingBox!AbilityOnly
    <2>8. EngineSingBox!Heartbeat => Second!Reload!Heartbeat
      BY <1>2 DEF Second!Reload!Heartbeat, EngineSingBox!Heartbeat,
             Second!Reload!AbilityOnly, EngineSingBox!AbilityOnly
    <2>9. EngineSingBox!CleanupEnds => Second!Reload!CleanupEnds
      BY DEF Second!Reload!CleanupEnds, EngineSingBox!CleanupEnds,
             Second!Reload!AbilityOnly, EngineSingBox!AbilityOnly
    <2> QED
      BY <2>1, <2>2, <2>3, <2>4, <2>5, <2>6, <2>7, <2>8,
         <2>9 DEF Second!Reload!Ability, EngineSingBox!Ability
  <1>8. EngineSingBox!StartTimesOut => Second!Reload!StartTimesOut
    BY <1>2 DEF Second!Reload!StartTimesOut, EngineSingBox!StartTimesOut,
           Second!Reload!AbilityOnly, EngineSingBox!AbilityOnly
  <1>9. EngineSingBox!Reloads => Second!Reload!Reloads
    BY <1>1 DEF Second!Reload!Reloads, EngineSingBox!Reloads,
           Second!Reload!SubscriptionWakes, EngineSingBox!SubscriptionWakes,
           Second!Reload!ReloadRefused, EngineSingBox!ReloadRefused,
           Second!Reload!ReloadSkips, EngineSingBox!ReloadSkips,
           Second!Reload!ReloadSingBox, EngineSingBox!ReloadSingBox,
           Second!Reload!ReloadMihomo, EngineSingBox!ReloadMihomo,
           Second!Reload!ReloadedMihomo, EngineSingBox!ReloadedMihomo,
           Second!Reload!QuickSetup, EngineSingBox!QuickSetup,
           Second!Reload!AbilityOnly, EngineSingBox!AbilityOnly,
           Second!Reload!Due, EngineSingBox!Due, Second!Reload!PlanReady,
           EngineSingBox!PlanReady, Second!Reload!ReloadEnds,
           EngineSingBox!ReloadEnds, Second!Reload!Wanted,
           EngineSingBox!Wanted, Second!Reload!Unchanged,
           EngineSingBox!Unchanged, Second!Reload!Reload,
           EngineSingBox!Reload, Second!Reload!PlanKey, EngineSingBox!PlanKey
  <1>10. EngineSingBox!Monitor => Second!Reload!Monitor
    BY DEF Second!Reload!Monitor, EngineSingBox!Monitor,
           Second!Reload!MonitorListens, EngineSingBox!MonitorListens,
           Second!Reload!TimerFires, EngineSingBox!TimerFires,
           Second!Reload!Refresh, EngineSingBox!Refresh,
           Second!Reload!MonitorOnly, EngineSingBox!MonitorOnly,
           Second!Reload!RemoveAt, EngineSingBox!RemoveAt
  <1> QED
    BY <1>3, <1>4, <1>5, <1>6, <1>7, <1>8, <1>9, <1>10 DEF Second!Reload!Next,
       EngineSingBox!Next

(* sing-box: the engine is on the TUN of its session                       *)
(* (reloadSingBoxConfig).                                                  *)
LEMMA EngineSingBoxRuns ==
  Spec => [](scenario = "engineSingBox" =>
                /\ EngineSingBox!TunHasOwner
                /\ EngineSingBox!ConnectedIsCarried)
  <1>1. Second!Reload!ConstantsOK
    BY SuiteAssumption DEF Second!Reload!ConstantsOK,
           EngineSingBox!ConstantsOK
  <1>2. Second!KeepsTun
    BY DEF Second!KeepsTun
  <1>3. Init /\ scenario = "engineSingBox" => Second!Reload!Init
    BY DEF Init, EngineInit, Second!Reload!Init, EngineSingBox!Init,
           Second!Reload!Controls, EngineSingBox!Controls,
           Second!Reload!NoSession, EngineSingBox!NoSession,
           Second!Reload!NoCall, EngineSingBox!NoCall, Second!Reload!Down,
           EngineSingBox!Down, Second!Reload!MonitorOff,
           EngineSingBox!MonitorOff
  <1>4. EngineSingBox!Next => Second!Reload!Next
    BY EngineSingBoxMoves
  <1>5. [Next]_vars => /\ scenario = "engineSingBox" => [Second!Reload!Next]_(Second!Reload!vars)
                       /\ (scenario = "engineSingBox") <=> (scenario = "engineSingBox")'
    BY <1>4, SuiteSteps DEF engineVars, Second!Reload!vars
  <1>6. /\ Second!Reload!TunHasOwner => EngineSingBox!TunHasOwner
        /\ Second!Reload!ConnectedIsCarried => EngineSingBox!ConnectedIsCarried
    BY DEF Second!Reload!TunHasOwner, EngineSingBox!TunHasOwner,
           Second!Reload!ConnectedIsCarried, EngineSingBox!ConnectedIsCarried
  <1>7. Second!Reload!Spec => /\ []Second!Reload!TunHasOwner
                              /\ []Second!Reload!ConnectedIsCarried
    BY <1>1, <1>2, Second!EngineHasOwner, Second!SessionIsCarried
  <1> QED
    BY <1>3, <1>5, <1>6, <1>7, PTL DEF Spec, Second!Reload!Spec

Third == INSTANCE VpnComponentProofs WITH
    Publishers <- {"state", "telemetry"}, Locked <- {"state"},
    BigFrames <- {"telemetry"},
    MaxPublications <- Bounds.laneWriters.MaxPublications,
    MaxLaneAcks <- Bounds.laneWriters.MaxAcks,
    MaxRebinds <- Bounds.laneWriters.MaxRebinds,
    MaxClockBack <- Bounds.laneWriters.MaxClockBack,
    MaxFrames <- Bounds.notifyWake.MaxFrames, MaxAcks <- 0, MaxDeaths <- 0,
    MaxCancels <- Bounds.notifyWake.MaxCancels,
    Attempts <- Bounds.tunFaults.Attempts,
    MaxSyncs <- Bounds.tunFaults.MaxSyncs, Lwip <- FALSE, PortTaken <- TRUE,
    PersistFails <- TRUE, Keys <- {"k1"},
    MaxDatagrams <- Bounds.flowsRace.MaxDatagrams,
    MaxStreams <- Bounds.flowsRace.MaxStreams,
    MaxRoutes <- Bounds.flowsRace.MaxRoutes,
    MaxSweeps <- Bounds.flowsRace.MaxSweeps, Engine <- "mihomo",
    Fails <- TRUE, EngineAttempts <- Bounds.engineFaults.Attempts,
    Modes <- {m1}, Sels <- {s1, s2}, MaxEdits <- Bounds.engineFaults.MaxEdits,
    MaxHandovers <- Bounds.engineFaults.MaxHandovers, StartEdits <- TRUE,
    EarlyHandover <- TRUE, SlowProbe <- TRUE

(* The instance LaneWriters of the lane (read_lane, publish_state) takes   *)
(* the steps of the component whose proofs are instantiated.               *)
LEMMA LaneWritersMoves == LaneWriters!Next => Third!Lane!Next
  <1>1. ASSUME NEW x PROVE LaneWriters!Update(x) => Third!Lane!Update(x)
    BY DEF Third!Lane!Update, LaneWriters!Update, Third!Lane!NextStamp,
           LaneWriters!NextStamp, Third!Lane!Idle, LaneWriters!Idle,
           Third!Lane!Max, LaneWriters!Max, Third!Lane!Empty,
           LaneWriters!Empty, Third!Lane!NoState, LaneWriters!NoState
  <1>2. LaneWriters!AttachAck => Third!Lane!AttachAck
    BY DEF Third!Lane!AttachAck, LaneWriters!AttachAck, Third!Lane!Idle,
           LaneWriters!Idle, Third!Lane!LatestGeneration,
           LaneWriters!LatestGeneration, Third!Lane!Empty, LaneWriters!Empty,
           Third!Lane!Max, LaneWriters!Max, Third!Lane!Slots,
           LaneWriters!Slots, Third!Lane!Valid, LaneWriters!Valid,
           Third!Lane!NoState, LaneWriters!NoState, Third!Lane!SlotCount,
           LaneWriters!SlotCount
  <1>3. ASSUME NEW x PROVE LaneWriters!Number(x) => Third!Lane!Number(x)
    BY DEF Third!Lane!Number, LaneWriters!Number, Third!Lane!Binding,
           LaneWriters!Binding, Third!Lane!Idle, LaneWriters!Idle,
           Third!Lane!Unlocked, LaneWriters!Unlocked, Third!Lane!Empty,
           LaneWriters!Empty, Third!Lane!NoState, LaneWriters!NoState
  <1>4. ASSUME NEW x PROVE LaneWriters!BodyFirst(x) => Third!Lane!BodyFirst(x)
    BY DEF Third!Lane!BodyFirst, LaneWriters!BodyFirst,
           Third!Lane!EnterMemory, LaneWriters!EnterMemory, Third!Lane!SlotOf,
           LaneWriters!SlotOf, Third!Lane!Binding, LaneWriters!Binding,
           Third!Lane!SlotCount, LaneWriters!SlotCount
  <1>5. ASSUME NEW x PROVE LaneWriters!BodyRest(x) => Third!Lane!BodyRest(x)
    BY DEF Third!Lane!BodyRest, LaneWriters!BodyRest, Third!Lane!LeaveMemory,
           LaneWriters!LeaveMemory, Third!Lane!SlotOf, LaneWriters!SlotOf,
           Third!Lane!Binding, LaneWriters!Binding, Third!Lane!SlotCount,
           LaneWriters!SlotCount
  <1>6. ASSUME NEW x PROVE LaneWriters!HeaderFirst(x) => Third!Lane!HeaderFirst(x)
    BY DEF Third!Lane!HeaderFirst, LaneWriters!HeaderFirst,
           Third!Lane!EnterMemory, LaneWriters!EnterMemory, Third!Lane!SlotOf,
           LaneWriters!SlotOf, Third!Lane!Binding, LaneWriters!Binding,
           Third!Lane!SlotCount, LaneWriters!SlotCount
  <1>7. ASSUME NEW x PROVE LaneWriters!HeaderRest(x) => Third!Lane!HeaderRest(x)
    BY DEF Third!Lane!HeaderRest, LaneWriters!HeaderRest,
           Third!Lane!LeaveMemory, LaneWriters!LeaveMemory, Third!Lane!SlotOf,
           LaneWriters!SlotOf, Third!Lane!Idle, LaneWriters!Idle,
           Third!Lane!Unlocked, LaneWriters!Unlocked, Third!Lane!Binding,
           LaneWriters!Binding, Third!Lane!SlotCount, LaneWriters!SlotCount,
           Third!Lane!Empty, LaneWriters!Empty, Third!Lane!NoState,
           LaneWriters!NoState
  <1>8. LaneWriters!Rebind => Third!Lane!Rebind
    BY DEF Third!Lane!Rebind, LaneWriters!Rebind, Third!Lane!Threads,
           LaneWriters!Threads, Third!Lane!Idle, LaneWriters!Idle,
           Third!Lane!Empty, LaneWriters!Empty, Third!Lane!LatestGeneration,
           LaneWriters!LatestGeneration, Third!Lane!NoState,
           LaneWriters!NoState, Third!Lane!Max, LaneWriters!Max,
           Third!Lane!Slots, LaneWriters!Slots, Third!Lane!Valid,
           LaneWriters!Valid, Third!Lane!SlotCount, LaneWriters!SlotCount
  <1>9. LaneWriters!SetClockBack => Third!Lane!SetClockBack
    BY DEF Third!Lane!SetClockBack, LaneWriters!SetClockBack
  <1>10. LaneWriters!StartRead => Third!Lane!StartRead
    BY DEF Third!Lane!StartRead, LaneWriters!StartRead, Third!Lane!Resting,
           LaneWriters!Resting, Third!Lane!LatestGeneration,
           LaneWriters!LatestGeneration, Third!Lane!Cardinality,
           LaneWriters!Cardinality, Third!Lane!Writing, LaneWriters!Writing,
           Third!Lane!Unread, LaneWriters!Unread, Third!Lane!Empty,
           LaneWriters!Empty, Third!Lane!Max, LaneWriters!Max,
           Third!Lane!Slots, LaneWriters!Slots, Third!Lane!Valid,
           LaneWriters!Valid, Third!Lane!Threads, LaneWriters!Threads,
           Third!Lane!NoState, LaneWriters!NoState, Third!Lane!SlotCount,
           LaneWriters!SlotCount
  <1>11. LaneWriters!ReadHeader => Third!Lane!ReadHeader
    BY DEF Third!Lane!ReadHeader, LaneWriters!ReadHeader, Third!Lane!Reading,
           LaneWriters!Reading, Third!Lane!Valid, LaneWriters!Valid,
           Third!Lane!Retry, LaneWriters!Retry, Third!Lane!Unread,
           LaneWriters!Unread, Third!Lane!Slots, LaneWriters!Slots,
           Third!Lane!Tries, LaneWriters!Tries, Third!Lane!NextSlot,
           LaneWriters!NextSlot, Third!Lane!SlotCount, LaneWriters!SlotCount
  <1>12. LaneWriters!ReadBody => Third!Lane!ReadBody
    BY DEF Third!Lane!ReadBody, LaneWriters!ReadBody, Third!Lane!Reading,
           LaneWriters!Reading, Third!Lane!Unread, LaneWriters!Unread,
           Third!Lane!Slots, LaneWriters!Slots, Third!Lane!SlotCount,
           LaneWriters!SlotCount
  <1>13. LaneWriters!ReadAgain => Third!Lane!ReadAgain
    BY DEF Third!Lane!ReadAgain, LaneWriters!ReadAgain, Third!Lane!Reading,
           LaneWriters!Reading, Third!Lane!ChecksumHolds,
           LaneWriters!ChecksumHolds, Third!Lane!NextSlot,
           LaneWriters!NextSlot, Third!Lane!Retry, LaneWriters!Retry,
           Third!Lane!Unread, LaneWriters!Unread, Third!Lane!Slots,
           LaneWriters!Slots, Third!Lane!Tries, LaneWriters!Tries,
           Third!Lane!SlotCount, LaneWriters!SlotCount
  <1>14. LaneWriters!FinishRead => Third!Lane!FinishRead
    BY DEF Third!Lane!FinishRead, LaneWriters!FinishRead, Third!Lane!Reading,
           LaneWriters!Reading, Third!Lane!Resting, LaneWriters!Resting,
           Third!Lane!Unread, LaneWriters!Unread, Third!Lane!Slots,
           LaneWriters!Slots, Third!Lane!Empty, LaneWriters!Empty,
           Third!Lane!SlotCount, LaneWriters!SlotCount, Third!Lane!NoState,
           LaneWriters!NoState
  <1> QED
    BY <1>1, <1>2, <1>3, <1>4, <1>5, <1>6, <1>7, <1>8, <1>9, <1>10, <1>11,
       <1>12, <1>13, <1>14 DEF Third!Lane!Next, LaneWriters!Next,
       Third!Lane!Threads, LaneWriters!Threads

(* Two publishers without a common lock: no torn frame is taken for a      *)
(* whole one (read_lane).                                                  *)
LEMMA LaneWritersRuns ==
  Spec => [](scenario = "laneWriters" => LaneWriters!NoTornFrame)
  <1>1. Third!Lane!ConstantsOK
    BY SuiteAssumption DEF Third!Lane!ConstantsOK, LaneWriters!ConstantsOK,
           Third!Lane!Threads, LaneWriters!Threads, Third!Lane!Headers,
           LaneWriters!Headers, Third!Lane!Frames, LaneWriters!Frames,
           Third!Lane!Envelopes, LaneWriters!Envelopes
  <1>2. Init /\ scenario = "laneWriters" => Third!Lane!Init
    BY DEF Init, LaneInit, Third!Lane!Init, LaneWriters!Init,
           Third!Lane!Slots, LaneWriters!Slots, Third!Lane!Empty,
           LaneWriters!Empty, Third!Lane!Threads, LaneWriters!Threads,
           Third!Lane!Idle, LaneWriters!Idle, Third!Lane!Resting,
           LaneWriters!Resting, Third!Lane!NoState, LaneWriters!NoState,
           Third!Lane!SlotCount, LaneWriters!SlotCount
  <1>3. LaneWriters!Next => Third!Lane!Next
    BY LaneWritersMoves
  <1>4. [Next]_vars => /\ scenario = "laneWriters" => [Third!Lane!Next]_(Third!Lane!vars)
                       /\ (scenario = "laneWriters") <=> (scenario = "laneWriters")'
    BY <1>3, SuiteSteps DEF laneVars, Third!Lane!vars
  <1>5. Third!Lane!NoTornFrame => LaneWriters!NoTornFrame
    BY DEF Third!Lane!NoTornFrame, LaneWriters!NoTornFrame
  <1>6. Third!Lane!Spec => []Third!Lane!NoTornFrame
    BY <1>1, Third!FramesAreWhole
  <1> QED
    BY <1>2, <1>4, <1>5, <1>6, PTL DEF Spec, Third!Lane!Spec

Fourth == INSTANCE VpnComponentProofs WITH
    Publishers <- {"state"},
    Locked <- {"state"}, BigFrames <- {},
    MaxPublications <- Bounds.laneAck.MaxPublications,
    MaxLaneAcks <- Bounds.laneAck.MaxAcks,
    MaxRebinds <- Bounds.laneAck.MaxRebinds,
    MaxClockBack <- Bounds.laneAck.MaxClockBack,
    MaxFrames <- Bounds.notifyWake.MaxFrames, MaxAcks <- 0, MaxDeaths <- 0,
    MaxCancels <- Bounds.notifyWake.MaxCancels,
    Attempts <- Bounds.tunFaults.Attempts,
    MaxSyncs <- Bounds.tunFaults.MaxSyncs, Lwip <- FALSE, PortTaken <- TRUE,
    PersistFails <- TRUE, Keys <- {"k1"},
    MaxDatagrams <- Bounds.flowsRace.MaxDatagrams,
    MaxStreams <- Bounds.flowsRace.MaxStreams,
    MaxRoutes <- Bounds.flowsRace.MaxRoutes,
    MaxSweeps <- Bounds.flowsRace.MaxSweeps, Engine <- "mihomo",
    Fails <- TRUE, EngineAttempts <- Bounds.engineFaults.Attempts,
    Modes <- {m1}, Sels <- {s1, s2}, MaxEdits <- Bounds.engineFaults.MaxEdits,
    MaxHandovers <- Bounds.engineFaults.MaxHandovers, StartEdits <- TRUE,
    EarlyHandover <- TRUE, SlowProbe <- TRUE

(* The instance LaneAck of the lane (read_lane, publish_state) takes the   *)
(* steps of the component whose proofs are instantiated.                   *)
LEMMA LaneAckMoves == LaneAck!Next => Fourth!Lane!Next
  <1>1. ASSUME NEW x PROVE LaneAck!Update(x) => Fourth!Lane!Update(x)
    BY DEF Fourth!Lane!Update, LaneAck!Update, Fourth!Lane!NextStamp,
           LaneAck!NextStamp, Fourth!Lane!Idle, LaneAck!Idle, Fourth!Lane!Max,
           LaneAck!Max, Fourth!Lane!Empty, LaneAck!Empty, Fourth!Lane!NoState,
           LaneAck!NoState
  <1>2. LaneAck!AttachAck => Fourth!Lane!AttachAck
    BY DEF Fourth!Lane!AttachAck, LaneAck!AttachAck, Fourth!Lane!Idle,
           LaneAck!Idle, Fourth!Lane!LatestGeneration,
           LaneAck!LatestGeneration, Fourth!Lane!Empty, LaneAck!Empty,
           Fourth!Lane!Max, LaneAck!Max, Fourth!Lane!Slots, LaneAck!Slots,
           Fourth!Lane!Valid, LaneAck!Valid, Fourth!Lane!NoState,
           LaneAck!NoState, Fourth!Lane!SlotCount, LaneAck!SlotCount
  <1>3. ASSUME NEW x PROVE LaneAck!Number(x) => Fourth!Lane!Number(x)
    BY DEF Fourth!Lane!Number, LaneAck!Number, Fourth!Lane!Binding,
           LaneAck!Binding, Fourth!Lane!Idle, LaneAck!Idle,
           Fourth!Lane!Unlocked, LaneAck!Unlocked, Fourth!Lane!Empty,
           LaneAck!Empty, Fourth!Lane!NoState, LaneAck!NoState
  <1>4. ASSUME NEW x PROVE LaneAck!BodyFirst(x) => Fourth!Lane!BodyFirst(x)
    BY DEF Fourth!Lane!BodyFirst, LaneAck!BodyFirst, Fourth!Lane!EnterMemory,
           LaneAck!EnterMemory, Fourth!Lane!SlotOf, LaneAck!SlotOf,
           Fourth!Lane!Binding, LaneAck!Binding, Fourth!Lane!SlotCount,
           LaneAck!SlotCount
  <1>5. ASSUME NEW x PROVE LaneAck!BodyRest(x) => Fourth!Lane!BodyRest(x)
    BY DEF Fourth!Lane!BodyRest, LaneAck!BodyRest, Fourth!Lane!LeaveMemory,
           LaneAck!LeaveMemory, Fourth!Lane!SlotOf, LaneAck!SlotOf,
           Fourth!Lane!Binding, LaneAck!Binding, Fourth!Lane!SlotCount,
           LaneAck!SlotCount
  <1>6. ASSUME NEW x PROVE LaneAck!HeaderFirst(x) => Fourth!Lane!HeaderFirst(x)
    BY DEF Fourth!Lane!HeaderFirst, LaneAck!HeaderFirst,
           Fourth!Lane!EnterMemory, LaneAck!EnterMemory, Fourth!Lane!SlotOf,
           LaneAck!SlotOf, Fourth!Lane!Binding, LaneAck!Binding,
           Fourth!Lane!SlotCount, LaneAck!SlotCount
  <1>7. ASSUME NEW x PROVE LaneAck!HeaderRest(x) => Fourth!Lane!HeaderRest(x)
    BY DEF Fourth!Lane!HeaderRest, LaneAck!HeaderRest,
           Fourth!Lane!LeaveMemory, LaneAck!LeaveMemory, Fourth!Lane!SlotOf,
           LaneAck!SlotOf, Fourth!Lane!Idle, LaneAck!Idle,
           Fourth!Lane!Unlocked, LaneAck!Unlocked, Fourth!Lane!Binding,
           LaneAck!Binding, Fourth!Lane!SlotCount, LaneAck!SlotCount,
           Fourth!Lane!Empty, LaneAck!Empty, Fourth!Lane!NoState,
           LaneAck!NoState
  <1>8. LaneAck!Rebind => Fourth!Lane!Rebind
    BY DEF Fourth!Lane!Rebind, LaneAck!Rebind, Fourth!Lane!Threads,
           LaneAck!Threads, Fourth!Lane!Idle, LaneAck!Idle, Fourth!Lane!Empty,
           LaneAck!Empty, Fourth!Lane!LatestGeneration,
           LaneAck!LatestGeneration, Fourth!Lane!NoState, LaneAck!NoState,
           Fourth!Lane!Max, LaneAck!Max, Fourth!Lane!Slots, LaneAck!Slots,
           Fourth!Lane!Valid, LaneAck!Valid, Fourth!Lane!SlotCount,
           LaneAck!SlotCount
  <1>9. LaneAck!SetClockBack => Fourth!Lane!SetClockBack
    BY DEF Fourth!Lane!SetClockBack, LaneAck!SetClockBack
  <1>10. LaneAck!StartRead => Fourth!Lane!StartRead
    BY DEF Fourth!Lane!StartRead, LaneAck!StartRead, Fourth!Lane!Resting,
           LaneAck!Resting, Fourth!Lane!LatestGeneration,
           LaneAck!LatestGeneration, Fourth!Lane!Cardinality,
           LaneAck!Cardinality, Fourth!Lane!Writing, LaneAck!Writing,
           Fourth!Lane!Unread, LaneAck!Unread, Fourth!Lane!Empty,
           LaneAck!Empty, Fourth!Lane!Max, LaneAck!Max, Fourth!Lane!Slots,
           LaneAck!Slots, Fourth!Lane!Valid, LaneAck!Valid,
           Fourth!Lane!Threads, LaneAck!Threads, Fourth!Lane!NoState,
           LaneAck!NoState, Fourth!Lane!SlotCount, LaneAck!SlotCount
  <1>11. LaneAck!ReadHeader => Fourth!Lane!ReadHeader
    BY DEF Fourth!Lane!ReadHeader, LaneAck!ReadHeader, Fourth!Lane!Reading,
           LaneAck!Reading, Fourth!Lane!Valid, LaneAck!Valid,
           Fourth!Lane!Retry, LaneAck!Retry, Fourth!Lane!Unread,
           LaneAck!Unread, Fourth!Lane!Slots, LaneAck!Slots,
           Fourth!Lane!Tries, LaneAck!Tries, Fourth!Lane!NextSlot,
           LaneAck!NextSlot, Fourth!Lane!SlotCount, LaneAck!SlotCount
  <1>12. LaneAck!ReadBody => Fourth!Lane!ReadBody
    BY DEF Fourth!Lane!ReadBody, LaneAck!ReadBody, Fourth!Lane!Reading,
           LaneAck!Reading, Fourth!Lane!Unread, LaneAck!Unread,
           Fourth!Lane!Slots, LaneAck!Slots, Fourth!Lane!SlotCount,
           LaneAck!SlotCount
  <1>13. LaneAck!ReadAgain => Fourth!Lane!ReadAgain
    BY DEF Fourth!Lane!ReadAgain, LaneAck!ReadAgain, Fourth!Lane!Reading,
           LaneAck!Reading, Fourth!Lane!ChecksumHolds, LaneAck!ChecksumHolds,
           Fourth!Lane!NextSlot, LaneAck!NextSlot, Fourth!Lane!Retry,
           LaneAck!Retry, Fourth!Lane!Unread, LaneAck!Unread,
           Fourth!Lane!Slots, LaneAck!Slots, Fourth!Lane!Tries, LaneAck!Tries,
           Fourth!Lane!SlotCount, LaneAck!SlotCount
  <1>14. LaneAck!FinishRead => Fourth!Lane!FinishRead
    BY DEF Fourth!Lane!FinishRead, LaneAck!FinishRead, Fourth!Lane!Reading,
           LaneAck!Reading, Fourth!Lane!Resting, LaneAck!Resting,
           Fourth!Lane!Unread, LaneAck!Unread, Fourth!Lane!Slots,
           LaneAck!Slots, Fourth!Lane!Empty, LaneAck!Empty,
           Fourth!Lane!SlotCount, LaneAck!SlotCount, Fourth!Lane!NoState,
           LaneAck!NoState
  <1> QED
    BY <1>1, <1>2, <1>3, <1>4, <1>5, <1>6, <1>7, <1>8, <1>9, <1>10, <1>11,
       <1>12, <1>13, <1>14 DEF Fourth!Lane!Next, LaneAck!Next,
       Fourth!Lane!Threads, LaneAck!Threads

(* A lane with acknowledgements: no torn frame is taken for a whole one    *)
(* (read_lane).                                                            *)
LEMMA LaneAckRuns ==
  Spec => [](scenario = "laneAck" => LaneAck!NoTornFrame)
  <1>1. Fourth!Lane!ConstantsOK
    BY SuiteAssumption DEF Fourth!Lane!ConstantsOK, LaneAck!ConstantsOK,
           Fourth!Lane!Threads, LaneAck!Threads, Fourth!Lane!Headers,
           LaneAck!Headers, Fourth!Lane!Frames, LaneAck!Frames,
           Fourth!Lane!Envelopes, LaneAck!Envelopes
  <1>2. Init /\ scenario = "laneAck" => Fourth!Lane!Init
    BY DEF Init, LaneInit, Fourth!Lane!Init, LaneAck!Init, Fourth!Lane!Slots,
           LaneAck!Slots, Fourth!Lane!Empty, LaneAck!Empty,
           Fourth!Lane!Threads, LaneAck!Threads, Fourth!Lane!Idle,
           LaneAck!Idle, Fourth!Lane!Resting, LaneAck!Resting,
           Fourth!Lane!NoState, LaneAck!NoState, Fourth!Lane!SlotCount,
           LaneAck!SlotCount
  <1>3. LaneAck!Next => Fourth!Lane!Next
    BY LaneAckMoves
  <1>4. [Next]_vars => /\ scenario = "laneAck" => [Fourth!Lane!Next]_(Fourth!Lane!vars)
                       /\ (scenario = "laneAck") <=> (scenario = "laneAck")'
    BY <1>3, SuiteSteps DEF laneVars, Fourth!Lane!vars
  <1>5. Fourth!Lane!NoTornFrame => LaneAck!NoTornFrame
    BY DEF Fourth!Lane!NoTornFrame, LaneAck!NoTornFrame
  <1>6. Fourth!Lane!Spec => []Fourth!Lane!NoTornFrame
    BY <1>1, Fourth!FramesAreWhole
  <1> QED
    BY <1>2, <1>4, <1>5, <1>6, PTL DEF Spec, Fourth!Lane!Spec

-----------------------------------------------------------------------------
(* A failed attempt had the worker that is blamed, for the steps of the    *)
(* instance in which ports are taken and publishing fails.                 *)
LEMMA TunFaultsBlames == Spec => [][scenario = "tunFaults" => TunFaults!BlameIsOwn]_vars
  <1>1. First!Tun!ConstantsOK
    BY SuiteAssumption DEF First!Tun!ConstantsOK, TunFaults!ConstantsOK
  <1>2. Init /\ scenario = "tunFaults" => First!Tun!Init
    BY DEF Init, TunInit, First!Tun!Init, TunFaults!Init, First!Tun!Stopped,
           TunFaults!Stopped, First!Tun!Gens, TunFaults!Gens, First!Tun!Free,
           TunFaults!Free, First!Tun!Bound, TunFaults!Bound, First!Tun!MaxGen,
           TunFaults!MaxGen
  <1>3. TunFaults!Next => First!Tun!Next
    BY TunFaultsMoves
  <1>4. [Next]_vars => /\ scenario = "tunFaults" => [First!Tun!Next]_(First!Tun!vars)
                       /\ (scenario = "tunFaults") <=> (scenario = "tunFaults")'
    BY <1>3, SuiteSteps DEF tunVars, First!Tun!vars
  <1>5. [Next]_vars /\ [First!Tun!BlameIsOwn]_(First!Tun!vars)
          => [scenario = "tunFaults" => TunFaults!BlameIsOwn]_vars
    <2>1. First!Tun!BlameIsOwn => TunFaults!BlameIsOwn
      BY DEF First!Tun!BlameIsOwn, TunFaults!BlameIsOwn
    <2>2. [Next]_vars /\ scenario = "tunFaults" /\ UNCHANGED tunVars => UNCHANGED vars
      BY DEF Next, vars, LaneNext, NotifyNext, TunNext, EngineNext, FlowNext,
             DnsNext, PolicyNext, WatchNext, ExitNext
    <2> QED
      BY <2>1, <2>2 DEF tunVars, First!Tun!vars
  <1>6. First!Tun!Spec => [][First!Tun!BlameIsOwn]_(First!Tun!vars)
    BY <1>1, First!BlameStays DEF First!Tun!BlamesItsOwnWorker
  <1> QED
    BY <1>2, <1>4, <1>5, <1>6, PTL DEF Spec, First!Tun!Spec

-----------------------------------------------------------------------------
(* A lane is a regular register of whole frames, whatever writes beside a  *)
(* read, dies and binds again, and however many publications there are     *)
(* (read_lane, publish_state, seed_next_generation).                       *)
THEOREM LaneStaysRegular == Spec => []LaneIsRegular
  BY LaneUiRuns, LaneCrashRuns, LaneWritersRuns, LaneAckRuns, PTL
     DEF LaneIsRegular

(* Nobody sleeps through a publication of the other side, however many     *)
(* frames, deaths and cancelled waits there are (wait_for_change_event).   *)
THEOREM NoWakeupIsLost == Spec => []NoLostWakeup
  BY NotifyWakeRuns, NotifyOwnerRuns, PTL DEF NoLostWakeup

(* Workers and listeners of the native session belong to the attempt that  *)
(* runs, for any number of attempts and restarts (start_vpn,               *)
(* stop_vpn_inner, publish_native_vpn_exit).                               *)
THEOREM TunWorkerStaysOwned == Spec => TunWorkerIsOwned
  BY TunFaultsRuns, TunListenersRuns, TunFaultsBlames, PTL DEF TunWorkerIsOwned

(* A session of the flow map has its reader, and no task outlives the      *)
(* worker, for any number of datagrams, routes and sweeps                  *)
(* (handle_udp_datagram, run_netstack_vpn).                                *)
THEOREM FlowsStayServed == Spec => []FlowsAreServed
  BY FlowsRaceRuns, FlowsRoutesRuns, PTL DEF FlowsAreServed

(* The engine is on the TUN of the session that is up, and on no other,    *)
(* for any number of attempts, edits and handovers (quickSetup,            *)
(* reloadSingBoxConfig, destroyVpn).                                       *)
THEOREM EngineStaysOnItsTun == Spec => []EngineOnItsTun
  BY EngineFaultsRuns, EngineSingBoxRuns, PTL DEF EngineOnItsTun

=============================================================================
