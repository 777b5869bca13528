---------------------------- MODULE EngineReload ----------------------------
(***************************************************************************)
(* The external engines (mihomo and sing-box) inside the VPN Extension:    *)
(* the start of one on a fresh TUN, the configuration that follows the     *)
(* control frames of the UI through a serial chain of reloads, the default *)
(* network that is followed through a debounced monitor, and the teardown. *)
(*                                                                         *)
(* Attempts follow one another: which one owns the platform VPN is the     *)
(* subject of PlatformSession, and the native engine that of TunSession.   *)
(* The cleanup barrier is never released by a timeout here.                *)
(***************************************************************************)
EXTENDS Naturals, Sequences, SequencesExt

CONSTANTS
    None,          \* no configuration, no selection
    Engine,        \* the engine of every session: "mihomo" or "sing-box"
    Attempts,      \* bound: VPN sessions, one after the other
    Modes, Sels,   \* routing modes, and proxy selections, of a control frame
    MaxEdits,      \* bound: control frames the UI publishes
    MaxHandovers,  \* bound: changes of the physical network
    Fails,         \* an engine may refuse a configuration or a TUN
    StartEdits,    \* the UI edits while an engine is being set up
    EarlyHandover, \* the network changes before the monitor listens
    SlowProbe      \* finding the physical network outlasts the debounce, or
                   \* the teardown of the session

ConstantsOK ==
    /\ Engine \in {"mihomo", "sing-box"}
    /\ {Attempts, MaxEdits, MaxHandovers} \subseteq Nat
    /\ {Fails, StartEdits, EarlyHandover, SlowProbe} \subseteq BOOLEAN

Controls == [mode : Modes, sel : Sels]
Nets == 0 .. MaxHandovers + 1     \* netId; 0 is no physical network

VARIABLES
    control,   \* the control frame of the UI lane
    edits,     \* frames published so far
    woken,     \* a change the waiting subscription has not seen
    stopping,  \* platform_stop_requested for the current attempt
    attempts,  \* sessions so far
    pc,        \* the step of the Ability's request chain
    ab,        \* the fields of the Ability
    sub,       \* runPlatformSubscription
    chain,     \* reloadChain: the reloads not yet done, the running one first
    calls,     \* the calls of quickSetup that have not called back
    yaml,      \* the mode in mihomo's config.yaml
    eng,       \* the engine: its TUN, its configuration and its network
    net,       \* the physical network
    moves,     \* handovers so far, and how far the last one is
    mon,       \* the default network monitor
    probes,    \* refreshes that wait for the physical network they asked for
    forced     \* reloads forced since the last handover began (history)

uiVars == <<control, edits>>
netVars == <<net, moves>>
vars == <<control, edits, woken, stopping, attempts, pc, ab, sub, chain, calls,
          yaml, eng, net, moves, mon, probes, forced>>

NoSession == [attempt |-> 0, engine |-> FALSE, conn |-> 0, tun |-> 0, net |-> 0,
              last |-> None]
Down == [tun |-> 0, config |-> None, net |-> 0]
NoCall == [st |-> None, sel |-> None]
MonitorOff == [on |-> FALSE, early |-> FALSE, timer |-> FALSE]

(***************************************************************************)
(* Preparing a plan: the frame of the UI lane decides mode and selections. *)
(* ensure_platform_attempt_active refuses an attempt that is being stopped.*)
(***************************************************************************)
PlanReady == ~stopping

(* What reloads compare a plan with: all of sing-box's configuration, but  *)
(* only the setup parameters of mihomo, whose mode is in config.yaml.      *)
PlanKey(c) == IF Engine = "mihomo" THEN c.sel ELSE c

(***************************************************************************)
(* The UI and the network                                                  *)
(***************************************************************************)
Settled == pc \in {"up", "idle"}

UiPublishes ==
    /\ edits < MaxEdits
    /\ StartEdits \/ Settled
    /\ \E c \in Controls \ {control} : control' = c
    /\ edits' = edits + 1
    /\ woken' = TRUE
    /\ UNCHANGED <<stopping, attempts, pc, ab, sub, chain, calls, yaml, eng, net,
                   moves, mon, probes, forced>>

UiStops ==
    /\ ab.attempt # 0 /\ ~stopping
    /\ stopping' = TRUE /\ woken' = TRUE
    /\ UNCHANGED <<control, edits, attempts, pc, ab, sub, chain, calls, yaml, eng,
                   net, moves, mon, probes, forced>>

(* scheduleDefaultNetworkRefresh: early events are ignored, later ones     *)
(* restart the timer.                                                      *)
Schedule(m) == IF m.on /\ ~m.early THEN [m EXCEPT !.timer = TRUE] ELSE m

(* A handover: the new network comes before the old one goes, or after.    *)
Reachable == EarlyHandover \/ pc = "idle" \/ (mon.on /\ ~mon.early)

NetAvailable ==
    /\ \/ /\ moves.now = "settled" /\ moves.done < MaxHandovers /\ Reachable
          /\ moves' = [done |-> moves.done + 1, now |-> "both"]
          /\ net' = moves.done + 2
          /\ forced' = 0
       \/ /\ moves.now = "neither"
          /\ moves' = [moves EXCEPT !.now = "settled"]
          /\ net' = moves.done + 1
          /\ UNCHANGED forced
    /\ mon' = Schedule(mon)
    /\ UNCHANGED <<control, edits, woken, stopping, attempts, pc, ab, sub, chain,
                   calls, yaml, eng, probes>>

NetLost ==
    /\ \/ /\ moves.now = "settled" /\ moves.done < MaxHandovers /\ Reachable
          /\ moves' = [done |-> moves.done + 1, now |-> "neither"]
          /\ net' = 0
          /\ forced' = 0
       \/ /\ moves.now = "both"
          /\ moves' = [moves EXCEPT !.now = "settled"]
          /\ UNCHANGED <<net, forced>>
    /\ mon' = Schedule(mon)
    /\ UNCHANGED <<control, edits, woken, stopping, attempts, pc, ab, sub, chain,
                   calls, yaml, eng, probes>>

(***************************************************************************)
(* The request chain of the Ability: performStart and destroyVpn           *)
(***************************************************************************)
AbilityOnly == UNCHANGED <<control, edits, attempts, net, moves, probes, forced>>

(* handleRequest up to performStart: the owner is bound and subscribed.    *)
Bind ==
    /\ pc = "idle" /\ attempts < Attempts
    /\ attempts' = attempts + 1
    /\ ab' = [ab EXCEPT !.attempt = attempts + 1]
    /\ stopping' = FALSE
    /\ sub' = "wait"
    /\ pc' = "network"
    /\ UNCHANGED <<control, edits, woken, chain, calls, yaml, eng, net, moves, mon,
                   probes, forced>>

(* destroyVpn up to its first await.                                       *)
Destroy(fields) ==
    /\ eng' = IF fields.engine THEN Down ELSE eng
    /\ ab' = NoSession
    /\ sub' = "off"
    /\ mon' = MonitorOff
    /\ pc' = "cleanup"

(* getPhysicalNetwork and createVpnConnection, then create and protect.    *)
StartNetwork ==
    /\ pc = "network"
    /\ \/ /\ net # 0
          /\ ab' = [ab EXCEPT !.conn = ab.attempt, !.net = net]
          /\ pc' = "create"
          /\ UNCHANGED <<eng, sub, mon>>
       \/ net = 0 /\ Destroy(ab)
    /\ UNCHANGED <<woken, stopping, chain, calls, yaml>> /\ AbilityOnly

Create ==
    /\ pc = "create"
    /\ \/ /\ ab' = [ab EXCEPT !.tun = ab.attempt]
          /\ pc' = "prepare"
          /\ UNCHANGED <<eng, sub, mon>>
       \/ Fails /\ Destroy(ab)
    /\ UNCHANGED <<woken, stopping, chain, calls, yaml>> /\ AbilityOnly

(* The plan, and the part of startMihomo before quickSetup calls back.     *)
StartMihomo ==
    /\ pc = "prepare" /\ Engine = "mihomo"
    /\ IF PlanReady
       THEN /\ yaml' = control.mode
            /\ calls' = [calls EXCEPT !["start"] = [st |-> "asked", sel |-> control.sel]]
            /\ ab' = [ab EXCEPT !.engine = TRUE]
            /\ pc' = "setup"
            /\ UNCHANGED <<eng, sub, mon>>
       ELSE Destroy(ab) /\ UNCHANGED <<yaml, calls>>
    /\ UNCHANGED <<woken, stopping, chain>> /\ AbilityOnly

(* startTUN with the descriptor of its attempt, then startExternalVpn,     *)
(* which refuses an attempt that is being stopped.                         *)
StartTun ==
    \/ /\ ~stopping
       /\ eng' = [eng EXCEPT !.tun = ab.attempt]
       /\ ab' = [ab EXCEPT !.last = calls["start"].sel]
       /\ pc' = "persist"
       /\ UNCHANGED <<sub, mon>>
    \/ (stopping \/ Fails) /\ Destroy(ab)

(* Mutant: startMihomo hands the descriptor over whoever owns the session. *)
MihomoStartedUnowned ==
    /\ calls["start"].st \in {"ok", "failed"}
    /\ calls' = [calls EXCEPT !["start"] = NoCall]
    /\ \/ calls["start"].st = "ok" /\ pc = "setup" /\ StartTun
       \/ calls["start"].st = "failed" /\ pc = "setup" /\ Destroy(ab)
       \/ /\ pc # "setup"
          /\ eng' = [eng EXCEPT !.tun = attempts]
          /\ UNCHANGED <<ab, sub, mon, pc>>
    /\ UNCHANGED <<woken, stopping, chain, yaml>> /\ AbilityOnly

(* startMihomo resumes. After a teardown it finds no connection and stops: *)
(* nothing but the parameters it remembered is left of it.                 *)
MihomoStarted ==
    /\ calls["start"].st \in {"ok", "failed"}
    /\ calls' = [calls EXCEPT !["start"] = NoCall]
    /\ \/ /\ calls["start"].st = "ok" /\ pc = "setup"
          /\ StartTun
       \/ /\ calls["start"].st = "failed" /\ pc = "setup"
          /\ Destroy(ab)
       \/ /\ pc # "setup"
          /\ ab' = IF calls["start"].st = "ok"
                   THEN [ab EXCEPT !.last = calls["start"].sel] ELSE ab
          /\ UNCHANGED <<eng, sub, mon, pc>>
    /\ UNCHANGED <<woken, stopping, chain, yaml>> /\ AbilityOnly

(* PLATFORM_OPERATION_TIMEOUT_MS: the setup stays behind as a barrier.     *)
StartTimesOut ==
    /\ pc = "setup" /\ Fails
    /\ Destroy(ab)
    /\ UNCHANGED <<woken, stopping, chain, calls, yaml>> /\ AbilityOnly

(* prepareSingBoxVpn, startSingBox and startExternalVpn in one turn.       *)
StartSingBox ==
    /\ pc = "prepare" /\ Engine = "sing-box"
    /\ \/ /\ PlanReady
          /\ eng' = [tun |-> ab.tun, config |-> control, net |-> ab.net]
          /\ ab' = [ab EXCEPT !.engine = TRUE, !.last = control]
          /\ pc' = "persist"
          /\ UNCHANGED <<sub, mon>>
       \/ (Fails \/ ~PlanReady) /\ Destroy(ab)
    /\ UNCHANGED <<woken, stopping, chain, calls, yaml>> /\ AbilityOnly

(* The tick, persistEngineSession, then telemetry, heartbeat and monitor.  *)
Persisted ==
    /\ pc = "persist"
    /\ pc' = "up"
    /\ mon' = [on |-> TRUE, early |-> TRUE, timer |-> FALSE]
    /\ UNCHANGED <<woken, stopping, ab, sub, chain, calls, yaml, eng>> /\ AbilityOnly

(* reconcileExtensionTerminal of the heartbeat and of the subscription.    *)
Heartbeat ==
    /\ pc = "up" /\ stopping
    /\ Destroy(ab)
    /\ UNCHANGED <<woken, stopping, chain, calls, yaml>> /\ AbilityOnly

(* The cleanup waits for the operation the start left behind.              *)
CleanupEnds ==
    /\ pc = "cleanup" /\ calls["start"].st = None
    /\ SlowProbe \/ probes = <<>>
    /\ pc' = "idle"
    /\ UNCHANGED <<woken, stopping, ab, sub, chain, calls, yaml, eng, mon>>
    /\ AbilityOnly

(***************************************************************************)
(* The subscription and the chain of reloads                               *)
(***************************************************************************)
(* A change: the terminal state first, then a reload without force.        *)
SubscriptionWakes ==
    /\ sub = "wait" /\ woken
    /\ woken' = FALSE
    /\ \/ /\ stopping
          /\ sub' = "off"
          /\ UNCHANGED chain
       \/ /\ ~stopping /\ ab.engine
          /\ sub' = "reload"
          /\ chain' = Append(chain, [by |-> ab.attempt, force |-> FALSE, setup |-> FALSE])
       \/ /\ ~stopping /\ ~ab.engine
          /\ UNCHANGED <<sub, chain>>
    /\ UNCHANGED <<stopping, pc, ab, calls, yaml, eng, mon>> /\ AbilityOnly

(* A reload is over, whether it succeeded, skipped or failed: its errors   *)
(* are logged, and the next of the chain runs.                             *)
ReloadEnds ==
    /\ chain' = Tail(chain)
    /\ sub' = IF sub = "reload" /\ Head(chain).by = ab.attempt THEN "wait" ELSE sub

Reload == Head(chain)
Due == chain # <<>> /\ ~Reload.setup

(* run() returns at once without a session, and fails without a plan.      *)
ReloadRefused ==
    /\ Due
    /\ \/ ~ab.engine
       \/ ~PlanReady
       \/ Engine = "sing-box" /\ (ab.tun = 0 \/ ab.net = 0)
    /\ ReloadEnds
    /\ UNCHANGED <<woken, stopping, pc, ab, calls, yaml, eng, mon>> /\ AbilityOnly

Wanted == ab.engine /\ PlanReady

Unchanged == ~Reload.force /\ PlanKey(control) = ab.last

(* The plan is what the engine runs: config.yaml is written all the same.  *)
ReloadSkips ==
    /\ Due /\ Wanted /\ Unchanged
    /\ yaml' = IF Engine = "mihomo" THEN control.mode ELSE yaml
    /\ ReloadEnds
    /\ UNCHANGED <<woken, stopping, pc, ab, calls, eng, mon>> /\ AbilityOnly

(* reloadSingBoxConfig: the engine is stopped before the new one starts.   *)
ReloadSingBox ==
    /\ Due /\ Wanted /\ ~Unchanged
    /\ Engine = "sing-box" /\ ab.tun # 0 /\ ab.net # 0
    /\ \/ /\ eng' = [tun |-> ab.tun, config |-> control, net |-> ab.net]
          /\ ab' = [ab EXCEPT !.last = control]
       \/ /\ Fails
          /\ eng' = Down
          /\ UNCHANGED ab
    /\ forced' = forced + (IF Reload.force THEN 1 ELSE 0)
    /\ ReloadEnds
    /\ UNCHANGED <<control, edits, attempts, net, moves, probes, woken, stopping, pc,
                   calls, yaml, mon>>

(* reloadMihomoConfig until quickSetup calls back.                         *)
ReloadMihomo ==
    /\ Due /\ Wanted /\ ~Unchanged /\ Engine = "mihomo"
    /\ yaml' = control.mode
    /\ calls' = [calls EXCEPT !["reload"] = [st |-> "asked", sel |-> control.sel]]
    /\ chain' = [chain EXCEPT ![1].setup = TRUE]
    /\ forced' = forced + (IF Reload.force THEN 1 ELSE 0)
    /\ UNCHANGED <<control, edits, attempts, net, moves, probes, woken, stopping, pc,
                   ab, sub, eng, mon>>

(* quickSetup runs in its own goroutine: it reads config.yaml when it gets *)
(* there, and a refused configuration leaves the engine as it was.         *)
QuickSetup(by) ==
    /\ calls[by].st = "asked"
    /\ \/ /\ eng' = [eng EXCEPT !.config = [mode |-> yaml, sel |-> calls[by].sel],
                                !.net = net]
          /\ calls' = [calls EXCEPT ![by].st = "ok"]
       \/ /\ Fails
          /\ calls' = [calls EXCEPT ![by].st = "failed"]
          /\ UNCHANGED eng
    /\ UNCHANGED <<woken, stopping, pc, ab, sub, chain, yaml, mon>> /\ AbilityOnly

ReloadedMihomo ==
    /\ calls["reload"].st \in {"ok", "failed"}
    /\ ab' = IF calls["reload"].st = "ok"
             THEN [ab EXCEPT !.last = calls["reload"].sel] ELSE ab
    /\ calls' = [calls EXCEPT !["reload"] = NoCall]
    /\ ReloadEnds
    /\ UNCHANGED <<woken, stopping, pc, yaml, eng, mon>> /\ AbilityOnly

(***************************************************************************)
(* The default network monitor                                             *)
(***************************************************************************)
MonitorOnly == UNCHANGED <<control, edits, woken, stopping, attempts, pc, sub, calls,
                           yaml, eng, net, moves, forced>>

(* 3000 ms after the monitor started.                                      *)
MonitorListens ==
    /\ mon.on /\ mon.early
    /\ mon' = [mon EXCEPT !.early = FALSE]
    /\ UNCHANGED <<ab, chain, probes>> /\ MonitorOnly

(* 1500 ms without an event: the physical network is asked for.            *)
TimerFires ==
    /\ mon.timer
    /\ SlowProbe \/ probes = <<>>
    /\ mon' = [mon EXCEPT !.timer = FALSE]
    /\ probes' = IF net = 0 THEN probes ELSE Append(probes, net)
    /\ UNCHANGED <<ab, chain>> /\ MonitorOnly

(* Mutant: the refresh reloads only a plan that changed.                   *)
RefreshLazily(i) ==
    /\ i \in DOMAIN probes
    /\ ab' = [ab EXCEPT !.net = probes[i]]
    /\ probes' = RemoveAt(probes, i)
    /\ chain' = IF ab.engine
                THEN Append(chain, [by |-> 0, force |-> FALSE, setup |-> FALSE])
                ELSE chain
    /\ UNCHANGED mon /\ MonitorOnly

(* refreshAfterDefaultNetworkChange resumes, whatever session there is now.*)
Refresh(i) ==
    /\ i \in DOMAIN probes
    /\ ab' = [ab EXCEPT !.net = probes[i]]
    /\ probes' = RemoveAt(probes, i)
    /\ chain' = IF ab.engine
                THEN Append(chain, [by |-> 0, force |-> TRUE, setup |-> FALSE])
                ELSE chain
    /\ UNCHANGED mon /\ MonitorOnly

-----------------------------------------------------------------------------
Init ==
    /\ control \in Controls
    /\ edits = 0 /\ woken = FALSE /\ stopping = FALSE /\ attempts = 0
    /\ pc = "idle" /\ ab = NoSession /\ sub = "off" /\ chain = <<>>
    /\ calls = [by \in {"start", "reload"} |-> NoCall]
    /\ yaml = control.mode /\ eng = Down
    /\ net = 1 /\ moves = [done |-> 0, now |-> "settled"]
    /\ mon = MonitorOff /\ probes = <<>> /\ forced = 0

Ability ==
    \/ Bind \/ StartNetwork \/ Create \/ StartMihomo \/ MihomoStarted
    \/ StartSingBox \/ Persisted \/ Heartbeat \/ CleanupEnds
Reloads ==
    \/ SubscriptionWakes \/ ReloadRefused \/ ReloadSkips \/ ReloadSingBox
    \/ ReloadMihomo \/ ReloadedMihomo \/ \E by \in {"start", "reload"} : QuickSetup(by)
Monitor ==
    \/ MonitorListens \/ TimerFires \/ \E i \in DOMAIN probes : Refresh(i)

Next ==
    \/ UiPublishes \/ UiStops \/ NetAvailable \/ NetLost
    \/ Ability \/ StartTimesOut \/ Reloads \/ Monitor

Spec == Init /\ [][Next]_vars

(* The event loop runs what is ready, timers fire, the engine's goroutines *)
(* finish and the platform answers. Nothing obliges the UI or the network. *)
Fair(n) ==
    \/ n = 1 /\ (\/ StartNetwork \/ Create \/ StartMihomo \/ MihomoStarted \/ StartSingBox
                 \/ Persisted \/ Heartbeat \/ CleanupEnds)
    \/ n = 2 /\ (\/ SubscriptionWakes \/ ReloadRefused \/ ReloadSkips \/ ReloadSingBox
                 \/ ReloadMihomo \/ ReloadedMihomo)
    \/ n = 3 /\ \E by \in {"start", "reload"} : QuickSetup(by)
    \/ n = 4 /\ (MonitorListens \/ TimerFires \/ \E i \in DOMAIN probes : Refresh(i))

FairSpec == Spec /\ \A n \in 1..4 : WF_vars(Fair(n))

-----------------------------------------------------------------------------
TypeOK ==
    /\ control \in Controls /\ edits \in 0 .. MaxEdits /\ woken \in BOOLEAN
    /\ stopping \in BOOLEAN /\ attempts \in 0 .. Attempts
    /\ pc \in {"idle", "network", "create", "prepare", "setup", "persist", "up", "cleanup"}
    /\ ab \in [attempt : 0 .. Attempts, engine : BOOLEAN, conn : 0 .. Attempts,
               tun : 0 .. Attempts, net : Nets, last : {None} \union Sels \union Controls]
    /\ sub \in {"off", "wait", "reload"}
    /\ chain \in Seq([by : 0 .. Attempts, force : BOOLEAN, setup : BOOLEAN])
    /\ calls \in [{"start", "reload"} ->
                   [st : {None, "asked", "ok", "failed"}, sel : {None} \union Sels]]
    /\ yaml \in Modes
    /\ eng \in [tun : 0 .. Attempts, config : {None} \union Controls, net : Nets]
    /\ net \in Nets /\ moves \in [done : 0 .. MaxHandovers, now : {"settled", "both", "neither"}]
    /\ mon \in [on : BOOLEAN, early : BOOLEAN, timer : BOOLEAN]
    /\ probes \in Seq(Nets) /\ forced \in Nat

(* An engine reads only the TUN of the session the Ability holds: a setup  *)
(* that calls back after its session was torn down gives it no descriptor, *)
(* and no teardown leaves an engine on one.                                *)
TunHasOwner == eng.tun # 0 => ab.conn = eng.tun /\ ab.tun = eng.tun

(* The tick reports an external engine as connected without asking it: so  *)
(* while a session is up, its engine must be on its TUN.                   *)
ConnectedIsCarried == pc = "up" => eng.tun = ab.attempt

Carrying == pc = "up" /\ ~stopping

(* The mode and the selections the UI has published are those the engine   *)
(* of a session that stays up comes to run with.                           *)
FollowsControl ==
    \A c \in Controls : []<>(Carrying /\ control = c => eng.config = c)

(* The engine of a session that stays up comes to dial through the         *)
(* physical network the device has.                                        *)
FollowsNetwork ==
    \A n \in Nets \ {0} : []<>(Carrying /\ net = n => eng.net = n)

(* A session that is told to stop ends, and its cleanup with it, whatever  *)
(* setup, reload or refresh is still under way.                            *)
StopEnds == []<>(stopping => pc = "idle")

(* A single handover does not force more than one reload.                  *)
\* It does not hold: see the observations in the README.
OneReloadPerHandover == forced <= 1

=============================================================================
