----------------------------- MODULE TunSession -----------------------------
(***************************************************************************)
(* The native VPN of the Extension process: the packet worker and its      *)
(* generations (paws_vpn), the start, stop and restart of it by Core under *)
(* vpn_operation_lock, the listeners that serve the session, the watcher   *)
(* of a worker's exit, and the Ability that binds one attempt after        *)
(* another, ticks and cleans up.                                           *)
(*                                                                         *)
(* Who may own the platform VPN, and when an attempt is superseded, is the *)
(* subject of PlatformSession: here the attempts follow one another, and   *)
(* the UI may cancel the current one at any moment.                        *)
(***************************************************************************)
EXTENDS Naturals, FiniteSets

CONSTANTS
    Attempts,      \* how many attempts the process serves, one by one
    MaxSyncs,      \* bound: configurations the controller hands to Core
    Lwip,          \* the stack of the worker owns process-global C state
    PortTaken,     \* a listener may fail, because its port is in use
    PersistFails   \* publishing the platform state may fail

ConstantsOK ==
    /\ Attempts \in Nat \ {0} /\ MaxSyncs \in Nat
    /\ {Lwip, PortTaken, PersistFails} \subseteq BOOLEAN

MaxGen == 4 * Attempts + 4 * MaxSyncs
Gens == 1 .. MaxGen

VARIABLES
    gen,       \* TunSession.generation
    life,      \* TunSession.state
    task,      \* TunSession.task: the generation of the held worker, or 0
    worker,    \* [Gens -> where the worker of that generation is]
    halted,    \* generations whose running flag is cleared
    exit,      \* TunSession.exit_tx: the last generation that reported its exit
    op,        \* the operation under vpn_operation_lock
    core,      \* the session fields of CoreState
    mixed,     \* Core.mixed_listener: the generation it was started with, or 0
    proxy,     \* Core.app_http_proxy: likewise
    watchers,  \* tasks that wait for the exit of a generation
    ability,   \* the step of the Ability with the current attempt
    syncs,     \* configurations handed over so far
    startedFor \* [Gens -> the attempt a generation was started for] (history)

session == <<gen, life, task, exit>>
workers == <<worker, halted>>
listeners == <<mixed, proxy>>
vars == <<gen, life, task, worker, halted, exit, op, core, mixed, proxy,
          watchers, ability, syncs, startedFor>>

Stopped == [kind |-> "Stopped", g |-> 0]
Running(g) == [kind |-> "Running", g |-> g]
Failed(g) == [kind |-> "Failed", g |-> g]

Free == [kind |-> "none", pc |-> "idle", then |-> "idle", g |-> 0, w |-> 0]
Bound(a) == [attempt |-> a, outcome |-> "Pending", starting |-> TRUE,
             running |-> FALSE, stop |-> FALSE, endpoint |-> 0]

(* ensure_platform_attempt_active *)
Active == core.outcome \notin {"Idle", "Failed", "Cancelled"}

(* apply_platform_failure *)
Failure(c) == [c EXCEPT !.outcome = "Failed", !.starting = FALSE, !.running = FALSE]

(***************************************************************************)
(* The packet worker                                                       *)
(***************************************************************************)
Using == {g \in Gens : worker[g] \in {"up", "closing"}}
Goes(g, pc) == worker' = [worker EXCEPT ![g] = pc]

WorkerOnly == UNCHANGED <<gen, task, op, core, mixed, proxy, watchers, ability,
                          syncs, startedFor>>

(* run_netstack_vpn up to the spawned backend: it returns at once when it  *)
(* was stopped before it began, and when its setup fails.                  *)
WorkerEnters(g) ==
    /\ worker[g] = "spawned"
    /\ Lwip => Using = {}
    /\ \E next \in {"up", "over"} :
          /\ g \in halted => next = "over"
          /\ Goes(g, next)
    /\ UNCHANGED <<life, exit, halted>> /\ WorkerOnly

(* The reader leaves its loop: shutdown, end of file or an error.          *)
WorkerEnds(g) ==
    /\ worker[g] = "up"
    /\ Goes(g, "closing")
    /\ UNCHANGED <<life, exit, halted>> /\ WorkerOnly

(* The helpers are joined, the descriptor closed and the core torn down.   *)
WorkerCloses(g) ==
    /\ worker[g] = "closing"
    /\ Goes(g, "over")
    /\ halted' = halted \union {g}
    /\ UNCHANGED <<life, exit>> /\ WorkerOnly

(* publish_task_exit *)
PublishTaskExit(g) ==
    /\ worker[g] = "over"
    /\ Goes(g, "told")
    /\ life' = IF gen = g /\ life = Running(g) THEN Failed(g) ELSE life
    /\ UNCHANGED <<exit, halted>> /\ WorkerOnly

(* exit_tx.send_replace, the last thing the worker does.                   *)
WorkerGone(g) ==
    /\ worker[g] = "told"
    /\ Goes(g, "gone")
    /\ exit' = g
    /\ UNCHANGED <<life, halted>> /\ WorkerOnly

(***************************************************************************)
(* TunSession.stop_locked and start, inside an operation of Core           *)
(***************************************************************************)
OpOnly == UNCHANGED <<exit, syncs, watchers>>
To(pc) == op' = [op EXCEPT !.pc = pc]
StopThen(pc) == op' = [op EXCEPT !.pc = "halt", !.then = pc]

(* stop_locked invalidates the generation before it signals the worker...  *)
Halt ==
    /\ op.pc = "halt"
    /\ gen' = gen + 1
    /\ task' = 0
    /\ halted' = halted \union ({task} \ {0})
    /\ op' = [op EXCEPT !.pc = "join", !.w = task]
    /\ UNCHANGED <<life, worker, core, listeners, ability, startedFor>> /\ OpOnly

(* Mutant: the lifecycle of the stopped generation stays.                  *)
JoinKeepsLifecycle ==
    /\ op.pc = "join"
    /\ op.w # 0 => worker[op.w] = "gone"
    /\ To(op.then)
    /\ UNCHANGED <<gen, task, life, workers, core, listeners, ability, startedFor>>
    /\ OpOnly

(* ...and goes on only when the worker has returned.                       *)
Join ==
    /\ op.pc = "join"
    /\ op.w # 0 => worker[op.w] = "gone"
    /\ life' = Stopped
    /\ To(op.then)
    /\ UNCHANGED <<gen, task, workers, core, listeners, ability, startedFor>> /\ OpOnly

(* start after its stop_locked: the duplicated descriptor may be refused.  *)
Spawn ==
    /\ op.pc = "spawn"
    /\ gen' = gen + 1
    /\ life' = Running(gen')
    /\ task' = gen'
    /\ Goes(gen', "spawned")
    /\ startedFor' = [startedFor EXCEPT ![gen'] = core.attempt]
    /\ op' = IF op.kind = "start"
             THEN [op EXCEPT !.pc = "proxy", !.g = gen']
             ELSE Free
    /\ UNCHANGED <<halted, core, listeners, ability>> /\ OpOnly

(***************************************************************************)
(* start_vpn_inner                                                         *)
(***************************************************************************)
StartOnly == UNCHANGED <<session, workers, startedFor>> /\ OpOnly

StartVpn ==
    /\ op = Free
    /\ ability = "ready"
    /\ ability' = IF Active THEN "starting" ELSE "failing"
    /\ op' = IF Active THEN [Free EXCEPT !.kind = "start", !.pc = "prepare"] ELSE Free
    /\ UNCHANGED <<core, listeners>> /\ StartOnly

StartFails ==
    /\ op' = Free
    /\ ability' = "failing"

(* prepare_active_vpn may load the configuration, and fail to; the attempt *)
(* is checked again after it.                                              *)
Prepare ==
    /\ op.pc = "prepare"
    /\ \/ /\ Active
          /\ StopThen("spawn")
          /\ UNCHANGED ability
       \/ StartFails
    /\ UNCHANGED <<core, listeners>> /\ StartOnly

StartRefused ==
    /\ op.pc = "spawn" /\ op.kind = "start"
    /\ StartFails
    /\ UNCHANGED <<core, listeners>> /\ StartOnly

(* restart_app_http_proxy *)
StartProxy ==
    /\ op.pc = "proxy"
    /\ \/ proxy' = op.g /\ To("check")
       \/ PortTaken /\ StopThen("drop") /\ UNCHANGED proxy
    /\ UNCHANGED <<core, mixed, ability>> /\ StartOnly

(* The attempt is checked between the listeners; this exit stops the       *)
(* worker and leaves the proxy to the cleanup of the attempt.              *)
CheckAfterProxy ==
    /\ op.pc = "check"
    /\ IF Active THEN To("mixed") ELSE StopThen("fail")
    /\ UNCHANGED <<core, listeners, ability>> /\ StartOnly

(* restart_mixed_listener: a listener that never gets ready takes the      *)
(* proxy down with it, and the start goes on.                              *)
RestartMixedListener ==
    /\ op.pc = "mixed"
    /\ \/ mixed' = op.g /\ UNCHANGED proxy
       \/ PortTaken /\ mixed' = 0 /\ proxy' = 0
    /\ IF Active THEN To("alive") ELSE StopThen("drop")
    /\ UNCHANGED <<core, ability>> /\ StartOnly

StopMixedListener == mixed' = 0 /\ proxy' = 0

(* The worker may have died while the listeners came up.                   *)
CheckAlive ==
    /\ op.pc = "alive"
    /\ IF life = Running(op.g)
       THEN To("commit") /\ UNCHANGED <<ability, listeners>>
       ELSE StartFails /\ StopMixedListener
    /\ UNCHANGED core /\ StartOnly

Connected(c, g) == [c EXCEPT !.outcome = "Connected", !.starting = FALSE,
                             !.running = TRUE, !.endpoint = g]

Commit ==
    /\ op.pc = "commit"
    /\ \/ /\ Active
          /\ core' = Connected(core, op.g)
          /\ \/ op' = Free /\ ability' = "returned"
             \/ PersistFails /\ StopThen("drop") /\ UNCHANGED ability
       \/ /\ ~Active
          /\ StopThen("drop")
          /\ UNCHANGED <<core, ability>>
    /\ UNCHANGED listeners /\ StartOnly

DropListeners ==
    /\ op.pc = "drop"
    /\ StartFails
    /\ StopMixedListener
    /\ UNCHANGED core /\ StartOnly

Fail ==
    /\ op.pc = "fail"
    /\ StartFails
    /\ UNCHANGED <<core, listeners>> /\ StartOnly

(* start_platform_vpn: the lock is released before the watcher exists.     *)
SpawnWatcher ==
    /\ ability = "returned"
    /\ watchers' = watchers \union {[g |-> core.endpoint, a |-> core.attempt, woken |-> FALSE]}
    /\ ability' = "ticking"
    /\ UNCHANGED <<session, workers, op, core, listeners, syncs, startedFor>>

(***************************************************************************)
(* stop_vpn_inner, called by the cleanup of the attempt                    *)
(***************************************************************************)

Cancelled(c) == [c EXCEPT !.starting = FALSE, !.running = FALSE,
                          !.outcome = IF @ = "Failed" THEN @ ELSE "Cancelled"]

StopVpn ==
    /\ op = Free
    /\ ability = "failing"
    /\ core' = [Cancelled(core) EXCEPT !.stop = TRUE]
    /\ \/ /\ op' = [Free EXCEPT !.kind = "stop", !.pc = "halt", !.then = "stopped"]
          /\ ability' = "stopping"
       \/ PersistFails /\ ability' = "unclean" /\ UNCHANGED op
    /\ UNCHANGED listeners /\ StartOnly

StopReturns ==
    /\ op.pc = "stopped"
    /\ op' = Free
    /\ StopMixedListener
    /\ core' = Cancelled(core)
    /\ \/ ability' = "joined"
       \/ PersistFails /\ ability' = "unclean"
    /\ StartOnly

(***************************************************************************)
(* sync_external_controller_config: Core restarts the running worker on    *)
(* the same descriptor, and on failure once more with the previous         *)
(* configuration. Nothing watches the generations it starts.               *)
(***************************************************************************)
SyncRestarts ==
    /\ op = Free
    /\ syncs < MaxSyncs
    /\ life = Running(gen)
    /\ syncs' = syncs + 1
    /\ op' = [Free EXCEPT !.kind = "sync", !.pc = "halt", !.then = "spawn"]
    /\ UNCHANGED <<session, workers, core, listeners, watchers, ability, startedFor>>

SyncRefused ==
    /\ op.pc = "spawn" /\ op.kind \in {"sync", "rollback"}
    /\ \/ op.kind = "sync" /\ op' = [op EXCEPT !.kind = "rollback", !.pc = "halt"]
       \/ op' = Free
    /\ UNCHANGED <<core, listeners, ability>> /\ StartOnly

(***************************************************************************)
(* The exit of a worker: await_exit, then publish_native_vpn_exit          *)
(***************************************************************************)
AwaitExit(w) ==
    /\ ~w.woken
    /\ exit >= w.g
    /\ watchers' = (watchers \ {w}) \union
                   {v \in {[w EXCEPT !.woken = TRUE]} : exit = w.g}
    /\ UNCHANGED <<session, workers, op, core, listeners, ability, syncs, startedFor>>

PublishNativeVpnExit(w) ==
    /\ w.woken
    /\ op = Free
    /\ watchers' = watchers \ {w}
    /\ IF life = Failed(w.g)
       THEN /\ StopMixedListener
            /\ core' = IF core.attempt = w.a /\ Active THEN Failure(core) ELSE core
       ELSE UNCHANGED <<core, listeners>>
    /\ UNCHANGED <<session, workers, op, ability, syncs, startedFor>>

(***************************************************************************)
(* The Ability: bind, tick, start, heartbeat, clean up, next attempt       *)
(***************************************************************************)
(* Mutant: the heartbeat repeats the last committed lifecycle.             *)
LifecycleOfCore ==
    IF core.stop THEN "stopping"
    ELSE IF core.outcome \in {"Failed", "Cancelled"} THEN "over"
    ELSE IF core.running /\ core.outcome = "Connected" THEN "connected" ELSE "starting"

(* extension_tick: what it answers, and what it makes of the session.      *)
Lifecycle ==
    IF core.stop THEN "stopping"
    ELSE IF core.outcome \in {"Failed", "Cancelled"} THEN "over"
    ELSE IF op # Free
         THEN IF core.running /\ core.outcome = "Connected" THEN "connected" ELSE "starting"
    ELSE CASE life.kind = "Running" -> "connected"
           [] life.kind = "Failed" -> "failed"
           [] OTHER -> IF core.outcome = "Pending" /\ core.starting THEN "starting"
                       ELSE IF core.running THEN "failed" ELSE "over"

Ticked ==
    IF op # Free \/ core.stop \/ ~Active THEN core
    ELSE CASE Lifecycle = "failed" -> Failure(core)
           [] life.kind = "Running" ->
                [core EXCEPT !.starting = FALSE, !.running = TRUE, !.outcome = "Connected"]
           [] OTHER -> core

Tick ==
    /\ core' = Ticked
    /\ UNCHANGED <<session, workers, op, listeners, watchers, syncs, startedFor>>

BoundTick ==
    /\ ability = "bound"
    /\ ability' = IF Lifecycle \in {"starting", "connected"} THEN "ready" ELSE "failing"
    /\ Tick

StartedTick ==
    /\ ability = "ticking"
    /\ ability' = IF Lifecycle = "connected" THEN "up" ELSE "failing"
    /\ Tick

(* reconcileExtensionTerminal, by the timer or by a frame of the UI.       *)
Heartbeat ==
    /\ ability = "up"
    /\ ability' = IF Lifecycle \in {"connected", "starting"} THEN "up" ELSE "failing"
    /\ Tick

(* A stop that the UI published, adopted by any synchronisation.           *)
UiStops ==
    /\ Active
    /\ core' = [Cancelled(core) EXCEPT !.stop = TRUE]
    /\ UNCHANGED <<session, workers, op, listeners, watchers, ability, syncs, startedFor>>

DestroyConnection ==
    /\ ability = "joined"
    /\ ability' = "cleaned"
    /\ UNCHANGED <<session, workers, op, core, listeners, watchers, syncs, startedFor>>

Bind ==
    /\ ability = "cleaned"
    /\ core.attempt < Attempts
    /\ core' = Bound(core.attempt + 1)
    /\ ability' = "bound"
    /\ UNCHANGED <<session, workers, op, listeners, watchers, syncs, startedFor>>

-----------------------------------------------------------------------------
Init ==
    /\ gen = 0 /\ life = Stopped /\ task = 0 /\ exit = 0
    /\ worker = [g \in Gens |-> "none"]
    /\ halted = {}
    /\ op = Free
    /\ core = Bound(1)
    /\ mixed = 0 /\ proxy = 0
    /\ watchers = {}
    /\ ability = "bound"
    /\ syncs = 0
    /\ startedFor = [g \in Gens |-> 0]

WorkerNext == \E g \in Gens : \/ WorkerEnters(g) \/ WorkerEnds(g) \/ WorkerCloses(g)
                              \/ PublishTaskExit(g) \/ WorkerGone(g)

OpSteps ==
    \/ Halt \/ Join \/ Spawn
    \/ Prepare \/ StartRefused \/ StartProxy \/ CheckAfterProxy
    \/ RestartMixedListener \/ CheckAlive \/ Commit \/ DropListeners \/ Fail
    \/ StopReturns \/ SyncRefused

WatcherNext == \E w \in watchers : AwaitExit(w) \/ PublishNativeVpnExit(w)

AbilitySteps == BoundTick \/ StartVpn \/ SpawnWatcher \/ StartedTick \/ StopVpn
                \/ DestroyConnection

Next ==
    \/ WorkerNext \/ OpSteps \/ WatcherNext \/ AbilitySteps
    \/ SyncRestarts \/ Heartbeat \/ UiStops \/ Bind

Spec == Init /\ [][Next]_vars

(***************************************************************************)
(* Workers, calls, watchers and the heartbeat go on, and the Ability gets  *)
(* its turn at the lock it finds free again and again (a tokio Mutex is a  *)
(* queue).  A worker that nobody stopped need not end, and neither the UI  *)
(* nor the controller need ask for anything.                               *)
(***************************************************************************)
WorkerRuns(g) ==
    \/ WorkerEnters(g) \/ WorkerCloses(g) \/ PublishTaskExit(g) \/ WorkerGone(g)
    \/ g \in halted /\ WorkerEnds(g)

Fair(n) ==
    \/ n = 1 /\ \E g \in Gens : WorkerRuns(g)
    \/ n = 2 /\ OpSteps
    \/ n = 3 /\ WatcherNext
    \/ n = 4 /\ op = Free /\ Heartbeat

FairStrongly == AbilitySteps

FairSpec == Spec /\ (\A n \in 1..4 : WF_vars(Fair(n))) /\ SF_vars(FairStrongly)

-----------------------------------------------------------------------------
(* The variables hold what the code can put in them.                       *)
TypeOK ==
    /\ gen \in 0 .. MaxGen /\ exit \in 0 .. gen
    /\ life \in {Stopped} \union {Running(g) : g \in Gens} \union {Failed(g) : g \in Gens}
    /\ task \in 0 .. gen /\ halted \subseteq Gens
    /\ worker \in [Gens -> {"none", "spawned", "up", "closing", "over", "told", "gone"}]
    /\ mixed \in 0 .. gen /\ proxy \in 0 .. gen
    /\ core.outcome \in {"Pending", "Connected", "Failed", "Cancelled"}
    /\ ability \in {"bound", "ready", "starting", "returned", "ticking", "up", "failing",
                    "stopping", "joined", "unclean", "cleaned"}

(***************************************************************************)
(* Two workers never read the TUN or drive the stack at the same time:     *)
(* start and stop of paws_vpn wait for the old worker to return, however   *)
(* starts, stops, failed starts and restarts by the controller follow each *)
(* other (lib.rs:262 of paws_vpn, netstack.rs:17).                         *)
(***************************************************************************)
OneWorker == Cardinality(Using) <= 1

(***************************************************************************)
(* When Core fails an attempt because a worker has failed, that worker was *)
(* started for this attempt: neither a late watcher (publish_native_vpn_   *)
(* exit) nor a tick that finds the lifecycle of an earlier generation      *)
(* (extension_tick) blames the next attempt.                               *)
(***************************************************************************)
BlameIsOwn ==
    core'.attempt = core.attempt /\ core'.outcome = "Failed" /\ core.outcome # "Failed"
        /\ life.kind = "Failed" => startedFor[life.g] = core.attempt

\* That, of every step.
BlamesItsOwnWorker == [][BlameIsOwn]_vars

(***************************************************************************)
(* While a session is connected, its worker runs and nothing is under way, *)
(* the listeners that serve it are up: in particular the watcher of an     *)
(* earlier worker never tears down a newer session's listener              *)
(* (the comment of publish_native_vpn_exit). Listeners may fail to start   *)
(* only where PortTaken says so.                                           *)
(***************************************************************************)
ListenersServe ==
    core.outcome = "Connected" /\ op = Free /\ life.kind = "Running" /\ ability = "up"
        => proxy # 0 /\ mixed # 0

(***************************************************************************)
(* The endpoint that a connected session published for the app's own       *)
(* requests (external_http_route) has a proxy behind it, whatever becomes  *)
(* of the public listener (app_http.rs:82).                                *)
(***************************************************************************)
\* It does not hold: see the observations in the README.
EndpointServes ==
    core.outcome = "Connected" /\ op = Free /\ life.kind = "Running" /\ ability = "up"
        /\ core.endpoint # 0 => proxy # 0

(***************************************************************************)
(* When the cleanup goes on to destroy the connection and acknowledges the *)
(* attempt, no worker is left that could still hold the TUN and no         *)
(* listener serves: stop is a barrier even if the controller restarts the  *)
(* worker at the same moment (stop_vpn_inner, beginVpnCleanup).            *)
(***************************************************************************)
CleanupIsComplete ==
    ability \in {"joined", "cleaned"} =>
        /\ \A g \in Gens : worker[g] \in {"none", "gone"}
        /\ mixed = 0 /\ proxy = 0 /\ ~core.running

(***************************************************************************)
(* An exited worker does not leave the session connected, not even one     *)
(* that the controller's restart started and nobody watches: the next      *)
(* heartbeat outside an operation reports it (extension_tick).             *)
(***************************************************************************)
ExitIsReported ==
    []<>(core.outcome = "Connected" => life.kind # "Failed")

(***************************************************************************)
(* An attempt that is over is cleaned up in the end: neither the lock nor  *)
(* the wait for a worker blocks it (rapid_stop_cannot_lose_the_worker_     *)
(* shutdown_wakeup).                                                       *)
(***************************************************************************)
CleanupEnds == []<>(ability # "failing")
=============================================================================
