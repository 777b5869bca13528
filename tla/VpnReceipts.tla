---------------------------- MODULE VpnReceipts ----------------------------
(***************************************************************************)
(* One VPN command from the tap to its outcome: the operation state of the *)
(* UI root (vpn_operation.rs), the tasks that submit a request once and    *)
(* observe its receipt (bridge/mod.rs), the calls of the bridge, which     *)
(* fail, time out and answer late, and the plugin that retains receipts    *)
(* and runs platform operations one after the other (VpnPlugin.ets).  The  *)
(* platform operations themselves are the subject of PlatformSession; here *)
(* one is its checks, its effect on the session and its outcome.           *)
(***************************************************************************)
EXTENDS Naturals, Sequences, FiniteSets, SequencesExt

CONSTANTS
    Kinds,        \* the commands that are issued, of Commands
    MaxTasks,     \* background tasks ever spawned
    MaxReqs,      \* requests ever submitted
    MaxRounds,    \* observations an observation budget has room for
    MaxRetained,  \* MAX_RETAINED_VPN_OPERATIONS
    MaxEdits,     \* configuration revisions
    MaxPlugins,   \* Ability sessions, each with a plugin of its own
    MaxRoots,     \* UI roots
    MaxIntents,   \* the intent epochs of Core that are explored
    MaxFaults,    \* bridge calls that fail or time out
    MaxExits,     \* exits of the Extension nobody asked for
    MaxHealth     \* failed health checks of a started session

Commands == {"Start", "Stop", "Restart", "OwnedStop"}

ConstantsOK ==
    /\ Kinds \subseteq Commands
    /\ {MaxTasks, MaxReqs, MaxRounds, MaxRetained, MaxEdits, MaxIntents, MaxFaults,
        MaxExits, MaxHealth} \subseteq Nat
    /\ {MaxPlugins, MaxRoots} \subseteq Nat \ {0}

VARIABLES
    root, nextId, active, seen,          \* the UI root
    tasks,                               \* its background tasks, oldest first
    inbox,                               \* calls on their way to the plugin
    plugin, retained, startReq, last,    \* the plugin of the Ability session
    chain, ops,                          \* platform operations and outcomes
    intent, vpn, cfg, lost, health,      \* Core
    user, quiet,                         \* history: the newest user command
    faults, exits, checks                \* how much went wrong so far

uiVars == <<root, nextId, active, seen>>
pluginVars == <<plugin, retained, startReq, last>>
coreVars == <<chain, ops, intent, vpn, cfg, lost, health, user, quiet>>
envVars == <<faults, exits, checks>>
vars == <<uiVars, tasks, inbox, pluginVars, coreVars, envVars>>

Reqs == 1..MaxReqs
Settled == {"true", "false", "failed"}
NoOp == [id |-> 0]
Off == [up |-> "off", sid |-> 0, stop |-> FALSE]
NoHealth == [stage |-> "none"]

-----------------------------------------------------------------------------
(* The operation state of the UI (vpn_operation.rs) *)

Op(id, action) == [id |-> id, action |-> action, phase |-> "AwaitingBridge",
                   receipt |-> 0, recovery |-> <<>>]

Is(id) == active.id = id /\ id # 0

MarkUnconfirmed(id, r) ==
    IF Is(id) THEN [active EXCEPT !.phase = "Unconfirmed", !.receipt = r]
    ELSE active

\* The unknown command becomes a blocker below the stop fence.
BeginRecovery(id) ==
    [Op(id, "Stop") EXCEPT !.recovery =
        Append(active.recovery, [id |-> active.id, action |-> active.action,
                                 receipt |-> active.receipt])]

FinishSuccess(id) == IF Is(id) THEN NoOp ELSE active

\* A failed fence gives the command below it back, still unconfirmed.
FinishFailure(id) ==
    IF ~Is(id) THEN active
    ELSE IF active.recovery = <<>> THEN NoOp
    ELSE LET below == Last(active.recovery)
         IN  [id |-> below.id, action |-> below.action,
              phase |-> "Unconfirmed", receipt |-> below.receipt,
              recovery |-> Front(active.recovery)]

-----------------------------------------------------------------------------
(* The tasks (bridge/mod.rs, tasks.rs) *)

Task(kind, id, action, req) ==
    [kind |-> kind, id |-> id, action |-> action, root |-> root, req |-> req,
     opid |-> 0, rounds |-> MaxRounds, pc |-> "submit", answer |-> "none",
     sid |-> 0, cfg |-> 0]

NextReq == 1 + Cardinality({k \in DOMAIN tasks : tasks[k].kind = "command"})
CanSpawn == Len(tasks) < MaxTasks
CanCommand == CanSpawn /\ NextReq <= MaxReqs
Goto(k, pc) == tasks' = [tasks EXCEPT ![k].pc = pc]
Answer(k, a) == tasks' = [tasks EXCEPT ![k].pc = "answered", ![k].answer = a]
Fault == faults < MaxFaults /\ faults' = faults + 1

\* A receipt that is pending ends a confirmation and costs a command one
\* round of its budget.
Pending(k) ==
    IF tasks[k].kind = "confirm" \/ tasks[k].rounds = 0
    THEN Answer(k, "unconfirmed")
    ELSE tasks' = [tasks EXCEPT ![k].pc = "observe", ![k].rounds = @ - 1]

Observed(k, outcome) ==
    IF outcome \in Settled THEN Answer(k, outcome) ELSE Pending(k)

Init ==
    /\ root = 1 /\ nextId = 0 /\ active = NoOp /\ seen = Off
    /\ tasks = <<>> /\ inbox = <<>>
    /\ plugin = 1 /\ retained = <<>> /\ startReq = 0
    /\ last = [p \in 1..MaxPlugins |-> 0]
    /\ chain = <<>> /\ ops = [r \in Reqs |-> "none"]
    /\ intent = 0 /\ vpn = Off /\ cfg = 0 /\ lost = FALSE /\ health = NoHealth
    /\ user = 0 /\ quiet = FALSE
    /\ faults = 0 /\ exits = 0 /\ checks = 0

-----------------------------------------------------------------------------
(* Handlers of the UI thread (operations.rs) *)

\* toggle_vpn: the button starts or stops, and is refused while a command is
\* active or the session is starting.
ToggleVpn ==
    /\ active = NoOp /\ seen.up # "starting" /\ CanCommand
    /\ LET action == IF seen.up = "on" THEN "Stop" ELSE "Start"
       IN  /\ action \in Kinds
           /\ active' = Op(nextId + 1, action)
           /\ tasks' = Append(tasks, Task("command", nextId + 1, action, NextReq))
    /\ nextId' = nextId + 1
    /\ UNCHANGED <<root, seen, inbox, pluginVars, coreVars, envVars>>

\* Mutant: an edit begins an operation though another one is active.
MutantBeginOwnedEdit(action) ==
    /\ action \in Kinds /\ seen.up = "on"
    /\ CanCommand /\ cfg < MaxEdits
    /\ active' = Op(nextId + 1, action)
    /\ nextId' = nextId + 1
    /\ tasks' = Append(tasks, [Task("command", nextId + 1, action, NextReq)
                               EXCEPT !.pc = "edit", !.sid = seen.sid])
    /\ UNCHANGED <<root, seen, inbox, pluginVars, coreVars, envVars>>

\* An edit of the connected profile: the operation of its follow-up begins
\* before the edit is made.
BeginOwnedEdit(action) ==
    /\ action \in Kinds /\ seen.up = "on" /\ active = NoOp
    /\ CanCommand /\ cfg < MaxEdits
    /\ active' = Op(nextId + 1, action)
    /\ nextId' = nextId + 1
    /\ tasks' = Append(tasks, [Task("command", nextId + 1, action, NextReq)
                               EXCEPT !.pc = "edit", !.sid = seen.sid])
    /\ UNCHANGED <<root, seen, inbox, pluginVars, coreVars, envVars>>

\* An edit without a connected session, or while another command is active,
\* is made without a follow-up.
PlainEdit ==
    /\ seen.up # "on" \/ active # NoOp
    /\ cfg < MaxEdits
    /\ cfg' = cfg + 1
    /\ UNCHANGED <<uiVars, tasks, inbox, pluginVars, chain, ops, intent, vpn,
                   lost, health, user, quiet, envVars>>

ConfirmVpnOperation ==
    /\ active # NoOp /\ active.phase = "Unconfirmed" /\ CanSpawn
    /\ active' = [active EXCEPT !.phase = "Confirming"]
    /\ LET sub == tasks[CHOOSE k \in DOMAIN tasks :
                           tasks[k].kind = "command" /\ tasks[k].req = active.receipt]
       IN  tasks' = Append(tasks, [Task("confirm", active.id, active.action, active.receipt)
                                   EXCEPT !.pc = "observe", !.opid = sub.opid])
    /\ UNCHANGED <<root, nextId, seen, inbox, pluginVars, coreVars, envVars>>

RecoverVpnOperation ==
    /\ active # NoOp /\ active.phase \in {"Unconfirmed", "Confirming"}
    /\ CanCommand
    /\ active' = BeginRecovery(nextId + 1)
    /\ nextId' = nextId + 1
    /\ tasks' = Append(tasks, Task("command", nextId + 1, "Stop", NextReq))
    /\ UNCHANGED <<root, seen, inbox, pluginVars, coreVars, envVars>>

\* The completion of a task runs on the UI thread, unless its root is gone.
\* A start or stop that settled without being applied is a failure.
Complete(k) ==
    LET t == tasks[k] IN
    /\ t.pc = "answered"
    /\ active' = IF t.root # root THEN active
                 ELSE IF t.answer = "unconfirmed" THEN MarkUnconfirmed(t.id, t.req)
                 ELSE IF t.answer = "failed" THEN FinishFailure(t.id)
                 ELSE IF t.answer = "false" /\ t.kind = "command"
                         /\ t.action \in {"Start", "Stop"} THEN FinishFailure(t.id)
                 ELSE FinishSuccess(t.id)
    /\ seen' = IF t.root = root /\ Is(t.id) THEN vpn ELSE seen
    /\ Goto(k, "done")
    /\ UNCHANGED <<root, nextId, inbox, pluginVars, coreVars, envVars>>

RefreshStatus ==
    /\ seen # vpn
    /\ seen' = vpn
    /\ UNCHANGED <<root, nextId, active, tasks, inbox, pluginVars, coreVars, envVars>>

\* A new root has operation stores and request ids of its own.
ReplaceRoot ==
    /\ root < MaxRoots
    /\ root' = root + 1 /\ nextId' = 0 /\ active' = NoOp /\ seen' = vpn
    /\ UNCHANGED <<tasks, inbox, pluginVars, coreVars, envVars>>

-----------------------------------------------------------------------------
(* Steps of a task *)

\* The durable edit, then the request names its revision.
MakeEdit(k) ==
    /\ tasks[k].pc = "edit"
    /\ \/ /\ cfg < MaxEdits
          /\ cfg' = cfg + 1
          /\ tasks' = [tasks EXCEPT ![k].pc = "submit", ![k].cfg = cfg + 1]
       \/ Answer(k, "failed") /\ UNCHANGED cfg
    /\ UNCHANGED <<uiVars, inbox, pluginVars, chain, ops, intent, vpn, lost,
                   health, user, quiet, envVars>>

\* A call reaches the queue of the plugin or fails at once.
Call(k, from, to, onFailure) ==
    /\ tasks[k].pc = from
    /\ \/ /\ inbox' = Append(inbox, [task |-> k, call |-> to])
          /\ Goto(k, to)
          /\ UNCHANGED envVars
       \/ /\ Fault /\ onFailure
          /\ UNCHANGED <<inbox, exits, checks>>
    /\ UNCHANGED <<uiVars, pluginVars, coreVars>>

Observe(k) == Goto(k, "observe")
Lookup(k) == Goto(k, "lookup")
Unobservable(k) == Answer(k, "unconfirmed")

Submit(k) == Call(k, "submit", "submitting", Observe(k))

AwaitOperation(k) == tasks[k].opid # 0 /\ Call(k, "observe", "awaiting", Lookup(k))

LookupOperation(k) ==
    \/ tasks[k].opid = 0 /\ Call(k, "observe", "looking", Unobservable(k))
    \/ Call(k, "lookup", "looking", Unobservable(k))

\* A call that took too long.  The plugin will still handle it: that matters
\* for a submitted request only.
CallTimesOut(k) ==
    /\ tasks[k].pc \in {"submitting", "awaiting", "parked", "looking"}
    /\ Fault
    /\ \/ /\ tasks[k].pc \in {"awaiting", "looking"}
          /\ \E i \in DOMAIN inbox :
                inbox[i] = [task |-> k, call |-> tasks[k].pc] /\ inbox' = RemoveAt(inbox, i)
       \/ tasks[k].pc \in {"submitting", "parked"} /\ UNCHANGED inbox
    /\ CASE tasks[k].pc = "submitting" -> Goto(k, "observe")
         [] tasks[k].pc = "looking" -> Answer(k, "unconfirmed")
         [] OTHER -> Goto(k, "lookup")
    /\ UNCHANGED <<uiVars, pluginVars, coreVars, exits, checks>>

-----------------------------------------------------------------------------
(* The plugin (VpnPlugin.ets) *)

Entry(kind, p, reqs, auto, t) ==
    [kind |-> kind, reqs |-> reqs, intent |-> intent + 1, plugin |-> p,
     sid |-> t.sid, cfg |-> t.cfg, auto |-> auto, stage |-> "queued"]

NoScope == [sid |-> 0, cfg |-> 0]

\* Every operation of the queue takes a new intent; `last' is the newest one
\* this plugin took, its operationGeneration.  An operation that stops claims
\* the connected session: its owner is told at once.
Enqueue(e) ==
    /\ intent < MaxIntents
    /\ chain' = Append(chain, e)
    /\ intent' = intent + 1
    /\ last' = [last EXCEPT ![e.plugin] = intent + 1]
    /\ vpn' = [vpn EXCEPT !.stop = @ \/ (e.kind # "start" /\ vpn.up = "on")]

Retain(r) ==
    LET done(i) == ops[retained[i]] \in Settled
        first == CHOOSE i \in DOMAIN retained :
                    done(i) /\ \A j \in 1..i - 1 : ~done(j)
    IN  IF Len(retained) < MaxRetained THEN Append(retained, r)
        ELSE IF \E i \in DOMAIN retained : done(i)
        THEN Append(RemoveAt(retained, first), r)
        ELSE retained

\* isPlatformVpnSessionCurrent: the connected session, at the revision.
SessionCurrent(e) == vpn.up = "on" /\ vpn.sid = e.sid /\ cfg = e.cfg

\* claimCurrentPlatformVpnStop refuses while an OS stop is on its way.
StopInFlight == chain # <<>> /\ Head(chain).stage = "stopping"

\* requestStartVpn: a start with the options of the one under way joins it.
RequestStart(p, reqs, auto) ==
    \/ /\ startReq # 0
       /\ \E i \in DOMAIN chain :
             /\ chain[i].intent = startReq
             /\ chain' = [chain EXCEPT ![i].reqs = @ \cup reqs,
                                           ![i].auto = @ \/ auto]
       /\ UNCHANGED <<intent, last, startReq, vpn>>
    \/ /\ Enqueue(Entry("start", p, reqs, auto, NoScope))
       /\ startReq' = IF p = plugin THEN intent + 1 ELSE startReq

Unqueued == UNCHANGED <<chain, intent, last, startReq, vpn>>

\* The operation a submitted request creates.
Create(t) ==
    LET r == t.req
        refuse(outcome) == ops' = [ops EXCEPT ![r] = outcome] /\ Unqueued
        enqueue == /\ Enqueue(Entry(t.action, plugin, {r}, FALSE, t))
                   /\ ops' = [ops EXCEPT ![r] = "queued"]
                   /\ UNCHANGED startReq
        refusedByClaim == /\ StopInFlight /\ intent < MaxIntents
                          /\ intent' = intent + 1
                          /\ last' = [last EXCEPT ![plugin] = intent + 1]
                          /\ ops' = [ops EXCEPT ![r] = "failed"]
                          /\ UNCHANGED <<chain, startReq, vpn>>
    IN  CASE t.action = "Start" ->
                RequestStart(plugin, {r}, FALSE) /\ ops' = [ops EXCEPT ![r] = "queued"]
          [] t.action = "Stop" ->
                IF StopInFlight THEN refusedByClaim ELSE enqueue
          [] OTHER ->
                IF ~SessionCurrent(t) THEN refuse("false")
                ELSE IF StopInFlight THEN refusedByClaim ELSE enqueue

\* submitBridgeOperation: a full table of unsettled receipts refuses.
HandleSubmit ==
    /\ inbox # <<>> /\ Head(inbox).call = "submitting"
    /\ LET k == Head(inbox).task
           t == tasks[k]
           kept == Retain(t.req)
           full == kept = retained
           waits == t.pc = "submitting"
       IN  /\ retained' = kept
           /\ IF full THEN Unqueued /\ UNCHANGED <<ops, user, quiet>>
              ELSE /\ Create(t)
                   /\ user' = IF t.action \in {"Start", "Stop"} THEN intent' ELSE user
                   /\ quiet' = (quiet /\ t.action # "Start")
           /\ tasks' = IF waits THEN [tasks EXCEPT ![k].pc = "observe",
                                                   ![k].opid = IF full THEN 0 ELSE plugin]
                       ELSE tasks
    /\ inbox' = Tail(inbox)
    /\ UNCHANGED <<uiVars, plugin, cfg, lost, health, envVars>>

IsRetained(r) == \E i \in DOMAIN retained : retained[i] = r

\* awaitBridgeOperation: an operation of another Ability session, or one
\* that was reclaimed, is unavailable; a pending one parks the call.
HandleAwait ==
    /\ inbox # <<>> /\ Head(inbox).call = "awaiting"
    /\ LET k == Head(inbox).task
           t == tasks[k]
       IN  IF t.opid # plugin \/ ~IsRetained(t.req)
           THEN tasks' = [tasks EXCEPT ![k].opid = 0, ![k].pc = "lookup"]
           ELSE IF ops[t.req] \in Settled THEN Answer(k, ops[t.req])
           ELSE Goto(k, "parked")
    /\ inbox' = Tail(inbox)
    /\ UNCHANGED <<uiVars, pluginVars, coreVars, envVars>>

\* The parked call answers when the operation settles or its slice is over.
AnswerParked(k) ==
    /\ tasks[k].pc = "parked"
    /\ Observed(k, ops[tasks[k].req])
    /\ UNCHANGED <<uiVars, inbox, pluginVars, coreVars, envVars>>

\* lookupBridgeOperation: a request this session does not know is unknown.
HandleLookup ==
    /\ inbox # <<>> /\ Head(inbox).call = "looking"
    /\ LET k == Head(inbox).task
           r == tasks[k].req
       IN  IF IsRetained(r)
           THEN IF ops[r] \in Settled THEN Answer(k, ops[r])
                ELSE IF tasks[k].kind = "confirm" \/ tasks[k].rounds = 0
                THEN Answer(k, "unconfirmed")
                ELSE tasks' = [tasks EXCEPT ![k].pc = "observe", ![k].opid = plugin,
                                            ![k].rounds = @ - 1]
           ELSE Answer(k, "unconfirmed")
    /\ inbox' = Tail(inbox)
    /\ UNCHANGED <<uiVars, pluginVars, coreVars, envVars>>

\* The Ability is created again: a plugin without receipts, the same queue.
RecreatePlugin ==
    /\ plugin < MaxPlugins
    /\ plugin' = plugin + 1 /\ retained' = <<>> /\ startReq' = 0
    /\ UNCHANGED <<uiVars, tasks, inbox, last, coreVars, envVars>>

-----------------------------------------------------------------------------
(* Platform operations, one at a time *)

Front1 == chain[1]
Stage(s) == chain' = [chain EXCEPT ![1].stage = s]
IntentCurrent == intent = Front1.intent

\* The head of the queue settles with its callers and the next one runs.
Settle(outcome) ==
    /\ chain' = Tail(chain)
    /\ ops' = [r \in Reqs |-> IF r \in Front1.reqs THEN outcome ELSE ops[r]]
    /\ startReq' = IF Front1.intent = startReq THEN 0 ELSE startReq

Watch(sid) ==
    IF MaxHealth = 0 THEN NoHealth
    ELSE [stage |-> "watch", sid |-> sid, intent |-> Front1.intent, plugin |-> Front1.plugin]

\* performStartVpn: reconcile an older owner, then begin an attempt.
BeginStart ==
    /\ chain # <<>>
    /\ \/ Front1.kind = "start" /\ Front1.stage = "queued"
       \/ Front1.kind = "Restart" /\ Front1.stage = "stopped" /\ cfg = Front1.cfg
    /\ IntentCurrent
    /\ vpn' = [up |-> "starting", sid |-> Front1.intent, stop |-> FALSE]
    /\ Stage("starting")
    /\ UNCHANGED <<uiVars, tasks, inbox, pluginVars, ops, intent, cfg, lost,
                   health, user, quiet, envVars>>

\* A start ends connected, or fails; one that was superseded always fails.
EndStart ==
    /\ chain # <<>> /\ Front1.stage = "starting"
    /\ \/ /\ IntentCurrent
          /\ vpn' = [vpn EXCEPT !.up = "on"]
          /\ health' = Watch(vpn.sid)
          /\ lost' = FALSE
          /\ Settle("true")
       \/ /\ vpn' = Off
          /\ lost' = (lost \/ Front1.auto)
          /\ Settle("failed") /\ UNCHANGED health
    /\ UNCHANGED <<uiVars, tasks, inbox, plugin, retained, last, intent, cfg,
                   user, quiet, envVars>>

\* An operation whose checks fail at the head of the queue, or between the
\* halves of a restart, has no effect.
Superseded ==
    /\ chain # <<>>
    /\ \/ Front1.stage = "queued" /\ ~IntentCurrent
       \/ Front1.stage = "queued" /\ Front1.kind \in {"Restart", "OwnedStop"}
          /\ ~SessionCurrent(Front1)
       \/ Front1.stage = "stopped" /\ (~IntentCurrent \/ cfg # Front1.cfg)
    /\ Settle(IF Front1.kind = "start" THEN "failed" ELSE "false")
    /\ lost' = (lost \/ (Front1.auto /\ vpn.up = "off"))
    /\ health' = IF Front1.kind = "rollback" THEN NoHealth ELSE health
    /\ UNCHANGED <<uiVars, tasks, inbox, plugin, retained, last, intent, vpn,
                   cfg, user, quiet, envVars>>

\* performStopVpn up to the call of the system.
BeginStop ==
    /\ chain # <<>> /\ Front1.stage = "queued" /\ IntentCurrent
    /\ \/ Front1.kind \in {"Stop", "rollback"}
       \/ Front1.kind \in {"Restart", "OwnedStop"} /\ SessionCurrent(Front1)
    /\ lost' = (lost /\ vpn.up = "off")
    /\ Stage("stopping")
    /\ UNCHANGED <<uiVars, tasks, inbox, pluginVars, ops, intent, vpn, cfg,
                   health, user, quiet, envVars>>

EndStop ==
    /\ chain # <<>> /\ Front1.stage = "stopping"
    /\ \/ /\ vpn' = Off
          /\ IF Front1.kind = "Restart"
             THEN Stage("stopped") /\ UNCHANGED <<ops, startReq, quiet>>
             ELSE /\ Settle("true")
                  /\ quiet' = IF Front1.kind = "Stop" THEN IntentCurrent ELSE quiet
          /\ health' = IF Front1.kind = "rollback"
                       THEN [health EXCEPT !.stage = "stopped"] ELSE health
       \/ /\ Settle("failed")
          /\ health' = IF Front1.kind = "rollback" THEN NoHealth ELSE health
          /\ UNCHANGED <<vpn, quiet>>
    /\ UNCHANGED <<uiVars, tasks, inbox, plugin, retained, last, intent, cfg,
                   lost, user, envVars>>

-----------------------------------------------------------------------------
(* Starts nobody tapped for *)

\* monitorStartupHealth: a candidate engine that fails its health check is
\* stopped and started again from the baseline.
HealthCurrent ==
    /\ last[health.plugin] = health.intent /\ intent = health.intent
    /\ vpn.up = "on" /\ vpn.sid = health.sid

RollBack ==
    /\ health.stage = "watch" /\ checks < MaxHealth
    /\ checks' = checks + 1
    /\ IF HealthCurrent /\ ~StopInFlight
       THEN /\ Enqueue(Entry("rollback", health.plugin, {}, FALSE, NoScope))
            /\ health' = [health EXCEPT !.stage = "stopping", !.intent = intent + 1]
       ELSE health' = NoHealth /\ UNCHANGED <<chain, intent, last, vpn>>
    /\ UNCHANGED <<uiVars, tasks, inbox, plugin, retained, startReq, ops,
                   cfg, lost, user, quiet, faults, exits>>

\* The generation of the plugin tells whether a command came in between.
StartBaseline ==
    /\ health.stage = "stopped"
    /\ IF last[health.plugin] = health.intent
       THEN RequestStart(health.plugin, {}, FALSE)
       ELSE Unqueued
    /\ health' = NoHealth
    /\ UNCHANGED <<uiVars, tasks, inbox, plugin, retained, ops, cfg, lost,
                   user, quiet, envVars>>

\* The Extension dies: recovery is armed if the session was connected and
\* no stop was asked for.
UnexpectedExit ==
    /\ exits < MaxExits /\ vpn.up = "on"
    /\ exits' = exits + 1
    /\ lost' = ~vpn.stop
    /\ vpn' = Off
    /\ UNCHANGED <<uiVars, tasks, inbox, pluginVars, chain, ops, intent, cfg,
                   health, user, quiet, faults, checks>>

\* checkAndAutoRecoverVpn, on a wake-up of the system.
AutoRecover ==
    /\ lost /\ vpn.up = "off"
    /\ lost' = FALSE
    /\ RequestStart(plugin, {}, TRUE)
    /\ UNCHANGED <<uiVars, tasks, inbox, plugin, retained, ops, cfg,
                   health, user, quiet, envVars>>

-----------------------------------------------------------------------------
UiNext ==
    \/ ToggleVpn \/ BeginOwnedEdit("Restart") \/ BeginOwnedEdit("OwnedStop")
    \/ PlainEdit \/ ConfirmVpnOperation \/ RecoverVpnOperation \/ RefreshStatus
    \/ ReplaceRoot
    \/ \E k \in DOMAIN tasks : Complete(k)

TaskNext ==
    \E k \in DOMAIN tasks :
        \/ MakeEdit(k) \/ Submit(k) \/ AwaitOperation(k) \/ LookupOperation(k)
        \/ AnswerParked(k) \/ CallTimesOut(k)

PluginNext == HandleSubmit \/ HandleAwait \/ HandleLookup \/ RecreatePlugin

ChainNext == BeginStart \/ EndStart \/ Superseded \/ BeginStop \/ EndStop

WakeNext == RollBack \/ UnexpectedExit \/ AutoRecover

\* StartBaseline continues the stop it waited for before the JavaScript
\* thread turns to another event.
Next ==
    \/ UiNext \/ TaskNext \/ StartBaseline
    \/ health.stage # "stopped" /\ (PluginNext \/ ChainNext \/ WakeNext)

Spec == Init /\ [][Next]_vars

(* Every thread goes on, a platform operation may take for ever.           *)
Fair(n) ==
    \/ n = 1 /\ \E k \in DOMAIN tasks : Complete(k)
    \/ n = 2 /\ (HandleSubmit \/ HandleAwait \/ HandleLookup)
    \/ n = 3 /\ \E k \in DOMAIN tasks : \/ MakeEdit(k) \/ Submit(k) \/ AwaitOperation(k)
                                         \/ LookupOperation(k) \/ AnswerParked(k)

FairSpec == Spec /\ \A n \in 1..3 : WF_vars(Fair(n))

-----------------------------------------------------------------------------
TypeOK ==
    /\ root \in 1..MaxRoots /\ plugin \in 1..MaxPlugins
    /\ active = NoOp \/ active.phase \in {"AwaitingBridge", "Confirming", "Unconfirmed"}
    /\ vpn.up \in {"off", "starting", "on"}
    /\ ops \in [Reqs -> {"none", "queued"} \cup Settled]
    /\ \A k \in DOMAIN tasks :
          /\ tasks[k].kind \in {"command", "confirm"}
          /\ tasks[k].pc \in {"edit", "submit", "submitting", "observe", "awaiting",
                              "parked", "lookup", "looking", "answered", "done"}
    /\ health.stage \in {"none", "watch", "stopping", "stopped"}

\* What the UI remembers: the active command and the ones below it.
Remembered ==
    IF active = NoOp THEN {}
    ELSE {active.id} \cup {active.recovery[i].id : i \in DOMAIN active.recovery}

Unresolved(k) ==
    /\ tasks[k].kind = "command"
    /\ \/ ops[tasks[k].req] = "queued"
       \/ \E i \in DOMAIN inbox : inbox[i].task = k /\ inbox[i].call = "submitting"

(* A platform operation the root submitted is never forgotten while it may
   still take effect: whatever was lost, late, reclaimed or answered for an
   older command, it is the active command or lies below the stop fence, so
   toggle_vpn stays locked (vpn_operation.rs, operations.rs). *)
PendingIsRemembered ==
    \A k \in DOMAIN tasks :
        Unresolved(k) /\ tasks[k].root = root => tasks[k].id \in Remembered

(* Never two platform operations of one root at a time, except a stop fence
   above what it fences (begin_owned_vpn_operation: "must not enqueue a
   second platform mutation behind an unknown one"). *)
OnlyFencesQueueUp ==
    \A j, k \in DOMAIN tasks :
        /\ j < k /\ Unresolved(j) /\ Unresolved(k)
        /\ tasks[j].root = root /\ tasks[k].root = root
        => tasks[k].action = "Stop"

(* After a stop of the user took effect nothing but a start of the user
   brings the VPN up: not the restart of an edit, not a health check. *)
StopWins == quiet => vpn.up = "off"

(* A restart of an edit gives up between its halves, which leaves the VPN
   down, only for a later start or stop (bridge/mod.rs: "A later user
   start/stop wins"). *)
\* It does not hold: see the observations in the README.
RestartGivesUpForACommand ==
    [][ /\ chain # <<>> /\ Head(chain).stage = "stopped"
        /\ Len(chain') < Len(chain)
        => intent > Head(chain).intent ]_vars

(* A health check that rolls back never replaces a command the user gave
   after the rollback began (VpnPlugin.ets, monitorStartupHealth). *)
BaselineIsNewest ==
    /\ health.stage = "stopped" /\ health'.stage = "none" /\ intent' > intent
    => user <= health.intent

\* That, of every step.
CommandOutlivesRollback == [][BaselineIsNewest]_vars

(* Start is unlocked over unknown commands only by a stop fence that was
   applied (vpn_operation.rs, begin_recovery). *)
\* It does not hold: see the observations in the README.
FenceWasApplied ==
    [][ /\ active # NoOp /\ active'.id = 0 /\ root' = root
        => \/ active.recovery = <<>>
           \/ \E k \in DOMAIN tasks : /\ tasks[k].root = root /\ tasks[k].id = active.id
                                      /\ ops[tasks[k].req] = "true" ]_vars

(* The bridge always gives an answer: a command or a confirmation stops
   waiting even if the platform operation never settles. *)
BridgeAnswers ==
    \A i \in 1..MaxTasks :
        []<>(active.id = i => active.phase \notin {"AwaitingBridge", "Confirming"})
=============================================================================
